---- MODULE Spec2Model ----
(***************************************************************************)
(* Verification model of retention-os: a batch pipeline that turns CRM     *)
(* exports into canonical business records.                                *)
(*                                                                         *)
(* The module holds several state machines over one set of variables:      *)
(*   SpecResolver  - the canonical (surrogate-key) resolver,               *)
(*                   retention_os/resolution/resolver.py                   *)
(*   SpecAdapter   - the adapters' clinic foreign key,                     *)
(*                   retention_os/adapters/boulevard.py and                *)
(*                   retention_os/data_ingestion/adapters/boulevard_adapter.py *)
(*   SpecPipeline  - the staged driver Pipeline.process(),                 *)
(*                   retention_os/pipeline/orchestrator.py, with main.py   *)
(*   SpecScript    - the process-script driver, scripts/process.py         *)
(*   SpecGeneric   - the rule-based entity resolver, pipeline/resolver.py  *)
(*   SpecValidator - the rule-based validator, pipeline/validator.py       *)
(*   SpecTransform - the entity transforms of the adapters and the         *)
(*                   transform loops of their drivers                      *)
(*   SpecIngestion - the Ingestion Orchestrator's run(),                   *)
(*                   data_ingestion/orchestrator.py                        *)
(*   SpecCleaner   - the rule-based cleaner, pipeline/cleaner.py           *)
(*   SpecEnricher  - the semantic enricher, pipeline/enricher.py           *)
(* While one machine runs, the variables of the others keep their initial  *)
(* values.                                                                 *)
(***************************************************************************)
EXTENDS Integers, Sequences, FiniteSets, TLC

VARIABLES
    \* ---- canonical resolver (resolution/resolver.py) ----
    entities,             \* self.entities: type -> insertion-ordered table
    source_to_canonical,  \* self.source_to_canonical: type -> (source id -> canonical id)
    next_uuid,            \* number of uuid4() values drawn so far, plus one
    rpc,                  \* position in resolve_entities: index into ResolveOrder
    rows_read,            \* the number of rows of each input frame read so far
    resolved_types,       \* the entity types resolved so far, in order
    \* ---- adapters (adapters/boulevard.py, data_ingestion/adapters) ----
    apc,                  \* position in the adapter's processing order
    adapter,              \* which adapter runs: "seeded" or "ingestion"
    adapter_in,           \* the source frames read so far: file -> rows
    adapter_out,          \* canonical_data / standardized_data: type -> records
    adapter_uuid,         \* number of uuid4() values the adapter drew, plus one
    \* ---- Full Pipeline (pipeline/orchestrator.py, main.py) ----
    ppc,                  \* position in Pipeline.process() and run_pipeline
    config,               \* the configuration fact initialize() branches on
    output_dir_exists,    \* whether self.output_dir exists on disk
    canonical_data,       \* the adapter's output, stage 2
    validated_data,       \* the data handed on by stage 4
    cleaned_data,         \* the data handed on by stage 5
    resolved_data,        \* the data handed on by stage 6
    enriched_data,        \* the data handed on by stage 7
    stage_failed,         \* the stages whose except branch ran
    processing_statistics,\* self.processing_statistics
    saved_files,          \* the <entity_type>.json files written
    stats_file,           \* processing_statistics.json: <<>>, or <<its content>>
    process_result,       \* "returned" or "raised", once process() has ended
    exit_code,            \* <<>>, or <<the value run_pipeline returns to sys.exit>>
    \* ---- process-script driver (scripts/process.py) ----
    spc,                  \* position in process.py main()
    script_dataframes,    \* what adapter.load_files() returned: file -> rows
    script_success,       \* the success flag process_data returned
    script_summary,       \* the summary process_data returned
    script_output,        \* the output file was written
    script_report,        \* the processing report file was written
    script_exit,          \* <<>>, or <<the exit status of the script>>
    \* ---- generic resolver (pipeline/resolver.py) ----
    grpc,                 \* position in EntityResolver.resolve_entities
    gr_strategies,        \* self.strategies
    gr_rules,             \* the rules argument
    gr_entities,          \* the entities argument
    gr_df,                \* df, the frame built from the entities
    gr_matches,           \* the matches _find_matches returned
    gr_clusters,          \* the clusters _build_clusters returned
    gr_resolved_entities, \* the list resolve_entities returns
    \* ---- rule-based validator (pipeline/validator.py) ----
    vpc,                  \* position in DataValidator.validate_dataset
    fail_on_error,        \* self.fail_on_error
    v_rules,              \* the rules argument
    v_data,               \* the data argument
    v_result,             \* the ValidationResult
    v_outcome,            \* "returned" or "raised", once validate_dataset has ended
    \* ---- entity transforms (adapters/boulevard.py, scripts/process.py) ----
    tpc,                  \* position in the transform loop of the driver
    t_driver,             \* whose loop runs: "seeded", "ingestion" or "script"
    t_dataframes,         \* the loaded frames: entity type -> rows
    t_canonical,          \* canonical_data / transformed_dataframes so far
    t_raised,             \* the entity types whose transform raised
    \* ---- Ingestion Orchestrator (data_ingestion/orchestrator.py) ----
    ipc,                  \* position in DataIngestionOrchestrator.run
    i_config,             \* self.config, the main configuration
    i_crm_file,           \* the CRM config file: <<>>, or <<its content>>
    i_standardized_data,  \* the entity names adapter.process() returned, in order
    i_files,              \* the entity names whose output file was written
    i_result,             \* what run returned: "True" or "False"; "raised" if it raised
    \* ---- rule-based cleaner (pipeline/cleaner.py) ----
    cpc,                  \* position in DataCleaner.clean_dataset
    c_data,               \* the data argument
    c_rules,              \* the rules argument
    c_cleaned,            \* the list clean_dataset returns
    \* ---- the semantic enricher (pipeline/enricher.py) ----
    epc,                  \* position in enrich_entities
    e_metrics,            \* self.metrics
    e_entities,           \* the entities argument
    e_related,            \* the related_entities argument
    e_rules,              \* the rule_type of each rule of the rules argument
    e_i,                  \* index of the entity of the outer loop
    e_j,                  \* index of the rule of the inner loop
    e_entity,             \* enriched_entity
    e_enriched            \* enriched_entities

resolverVars == <<entities, source_to_canonical, next_uuid, rpc, rows_read, resolved_types>>
adapterVars  == <<apc, adapter, adapter_in, adapter_out, adapter_uuid>>
pipelineVars == <<ppc, config, output_dir_exists, canonical_data, validated_data,
                  cleaned_data, resolved_data, enriched_data, stage_failed,
                  processing_statistics, saved_files, stats_file, process_result,
                  exit_code>>
scriptVars   == <<spc, script_dataframes, script_success, script_summary, script_output,
                  script_report, script_exit>>
genericVars  == <<grpc, gr_strategies, gr_rules, gr_entities, gr_df, gr_matches,
                  gr_clusters, gr_resolved_entities>>
\* The drivers, and the components that are also run on their own.
driverVars    == <<resolverVars, adapterVars, pipelineVars, scriptVars>>
validatorVars == <<vpc, fail_on_error, v_rules, v_data, v_result, v_outcome>>
transformVars == <<tpc, t_driver, t_dataframes, t_canonical, t_raised>>
ingestionVars == <<ipc, i_config, i_crm_file, i_standardized_data, i_files, i_result>>
cleanerVars == <<cpc, c_data, c_rules, c_cleaned>>
enricherVars == <<epc, e_metrics, e_entities, e_related, e_rules, e_i, e_j, e_entity, e_enriched>>
componentVars == <<genericVars, validatorVars, transformVars, ingestionVars, cleanerVars, enricherVars>>
\* What a component leaves alone when it runs on its own.
besidesGeneric   == <<driverVars, validatorVars, transformVars, ingestionVars, cleanerVars, enricherVars>>
besidesValidator == <<driverVars, genericVars, transformVars, ingestionVars, cleanerVars, enricherVars>>
besidesTransform == <<driverVars, genericVars, validatorVars, ingestionVars, cleanerVars, enricherVars>>
besidesIngestion == <<driverVars, genericVars, validatorVars, transformVars, cleanerVars, enricherVars>>
besidesCleaner == <<driverVars, genericVars, validatorVars, transformVars, ingestionVars, enricherVars>>
besidesEnricher == <<driverVars, genericVars, validatorVars, transformVars, ingestionVars, cleanerVars>>
vars == <<driverVars, componentVars>>

(***************************************************************************)
(* Python values.  None stands for None, the empty string and a missing    *)
(* dictionary key (all falsy); NaN is pandas' missing cell, which is       *)
(* truthy but pd.isna.                                                     *)
(***************************************************************************)
None == "None"
NaN  == "NaN"

Truthy(v) == v # None
IsNa(v)   == v \in {None, NaN}
\* the recurring test `pd.isna(x) or not x`
Missing(v) == IsNa(v) \/ ~Truthy(v)
\* Python's `a or b`
Or(a, b) == IF Truthy(a) THEN a ELSE b

\* dict.get(f)
Get(d, f) == IF f \in DOMAIN d THEN d[f] ELSE None
\* d[f] = v
Put(d, f, v) == [g \in DOMAIN d \cup {f} |-> IF g = f THEN v ELSE d[g]]
\* old.update(new)
Update(old, new) == [g \in DOMAIN old \cup DOMAIN new |->
                        IF g \in DOMAIN new THEN new[g] ELSE old[g]]

EmptyDict == [g \in {} |-> None]

SeqsUpTo(S, n) == UNION {[1..k -> S] : k \in 0..n}

RECURSIVE SeqSum(_)
SeqSum(s) == IF s = <<>> THEN 0 ELSE Head(s) + SeqSum(Tail(s))


(***************************************************************************)
(* CANONICAL RESOLVER  (resolution/resolver.py, class EntityResolver)      *)
(***************************************************************************)

\* Bounds of the resolver's input.
MaxRows  == 3     \* rows over all input frames of one run
MaxFrame == 2     \* rows of one input frame

\* The keys of self.entities (resolver.py:18-32).
EntityTypes == {"business", "client", "professional", "service", "package",
                "package_component", "appointment", "appointment_line", "payment",
                "client_package", "outreach_message", "product_sale",
                "product_sale_line"}

\* uuid4() values are modelled as fresh names, distinct from every identifier
\* an input row can carry.
UuidNames == <<"u1", "u2", "u3", "u4", "u5", "u6", "u7", "u8", "u9", "u10", "u11", "u12">>
Uuid(n) == UuidNames[n]
Uuids == {UuidNames[i] : i \in DOMAIN UuidNames}

\* A table of self.entities: a Python dict, so it keeps insertion order.
EmptyTable == [keys |-> <<>>, rec |-> EmptyDict]

\* The resolver's state as one value: [entities, source_to_canonical, next_uuid].
ResolverState == [entities |-> entities, source_to_canonical |-> source_to_canonical,
                  next_uuid |-> next_uuid]

\* _get_canonical_id: self.source_to_canonical[entity_type].get(source_id)
get_canonical_id(st, entity_type, source_id) ==
    Get(st.source_to_canonical[entity_type], source_id)

\* _map_source_to_canonical
map_source_to_canonical(st, entity_type, source_id, canonical_id) ==
    IF Truthy(source_id)
    THEN [st EXCEPT !.source_to_canonical[entity_type] = Put(@, source_id, canonical_id)]
    ELSE st

\* _add_entity: the canonical id is the row's own "id" when it has one, else a
\* fresh uuid; the record is stored under it (replacing whatever was there);
\* the map is filled from the record's "source_id" field only.
add_entity(st, entity_type, entity_data) ==
    LET own   == Truthy(Get(entity_data, "id"))
        cid   == IF own THEN entity_data["id"] ELSE Uuid(st.next_uuid)
        data  == Put(entity_data, "id", cid)
        tab   == st.entities[entity_type]
        tab2  == [keys |-> IF cid \in DOMAIN tab.rec THEN tab.keys ELSE Append(tab.keys, cid),
                  rec  |-> Put(tab.rec, cid, data)]
        st2   == [st EXCEPT !.entities[entity_type] = tab2,
                            !.next_uuid = IF own THEN @ ELSE @ + 1]
        source_id == Get(data, "source_id")
    IN  IF Truthy(source_id)
        THEN map_source_to_canonical(st2, entity_type, source_id, cid)
        ELSE st2

\* `if canonical_id: entities[t][canonical_id].update(row_dict) else: _add_entity(...)`
upsert(st, entity_type, source_id, row_dict) ==
    LET canonical_id == get_canonical_id(st, entity_type, source_id)
    IN  IF Truthy(canonical_id)
        THEN [st EXCEPT !.entities[entity_type].rec[canonical_id] = Update(@, row_dict)]
        ELSE add_entity(st, entity_type, row_dict)

\* `if self.entities["business"]: row_dict["business_id"] = next(iter(...keys()))`
with_business(st, row_dict) ==
    IF st.entities["business"].keys # <<>>
    THEN Put(row_dict, "business_id", Head(st.entities["business"].keys))
    ELSE row_dict

\* The default business of _resolve_business_entities (lines 168-174, 195-201):
\* _generate_id() is called first, so the record arrives with its id.
default_business(st) ==
    add_entity([st EXCEPT !.next_uuid = @ + 1], "business",
               [id |-> Uuid(st.next_uuid), name |-> "Default Business",
                source_id |-> "default"])

business_row(st, row_dict) ==
    LET source_id == Get(row_dict, "source_id")
    IN  IF Missing(source_id) THEN st
        ELSE upsert(st, "business", source_id, row_dict)

\* The loop body shared by _resolve_client_entities, _resolve_professional_entities,
\* _resolve_service_entities and _resolve_package_entities.
simple_row(st, entity_type, row_dict) ==
    LET source_id == Get(row_dict, "source_id")
    IN  IF Missing(source_id) THEN st
        ELSE upsert(st, entity_type, source_id, with_business(st, row_dict))

\* child_row with a seeded fault: a child whose parents do not resolve is kept.
child_row_keeps_unresolved(st, entity_type, row_dict, f1, t1, f2, t2) ==
    LET id1 == Get(row_dict, f1)
        id2 == Get(row_dict, f2)
        c1  == get_canonical_id(st, t1, id1)
        c2  == get_canonical_id(st, t2, id2)
        source_id == Or(Get(row_dict, "source_id"), id1 \o "_" \o id2)
        row2 == Put(Put(Put(row_dict, f1, c1), f2, c2), "source_id", source_id)
    IN  IF Missing(id1) \/ Missing(id2) THEN st
        ELSE upsert(st, entity_type, source_id, row2)

\* The loop body shared by _resolve_package_component_entities and
\* _resolve_client_package_entities: both parents must resolve.
child_row(st, entity_type, row_dict, f1, t1, f2, t2) ==
    LET id1 == Get(row_dict, f1)
        id2 == Get(row_dict, f2)
        c1  == get_canonical_id(st, t1, id1)
        c2  == get_canonical_id(st, t2, id2)
        source_id == Or(Get(row_dict, "source_id"), id1 \o "_" \o id2)
        row2 == Put(Put(Put(row_dict, f1, c1), f2, c2), "source_id", source_id)
    IN  IF Missing(id1) \/ Missing(id2) THEN st
        ELSE IF ~Truthy(c1) \/ ~Truthy(c2) THEN st
        ELSE upsert(st, entity_type, source_id, row2)

package_component_row(st, row_dict) ==
    child_row(st, "package_component", row_dict, "package_id", "package",
              "service_id", "service")

client_package_row(st, row_dict) ==
    child_row(st, "client_package", row_dict, "client_id", "client",
              "package_id", "package")

appointment_row(st, row_dict) ==
    LET source_id == Or(Get(row_dict, "source_id"), Get(row_dict, "appointment_id"))
        client_id == Get(row_dict, "client_id")
        canonical_client_id ==
            IF Truthy(client_id) THEN get_canonical_id(st, "client", client_id) ELSE None
        professional_id == Or(Get(row_dict, "staff_id"), Get(row_dict, "professional_id"))
        canonical_professional_id ==
            IF Truthy(professional_id)
            THEN get_canonical_id(st, "professional", professional_id) ELSE None
        row1 == with_business(st, row_dict)
        row2 == IF Truthy(canonical_client_id)
                THEN Put(row1, "client_id", canonical_client_id) ELSE row1
        row3 == IF Truthy(canonical_professional_id)
                THEN Put(row2, "professional_id", canonical_professional_id) ELSE row2
    IN  IF Missing(source_id) THEN st
        ELSE upsert(st, "appointment", source_id, row3)

appointment_line_row(st, row_dict) ==
    LET appointment_id == Get(row_dict, "appointment_id")
        service_id == Get(row_dict, "service_id")
        canonical_appointment_id == get_canonical_id(st, "appointment", appointment_id)
        canonical_service_id == get_canonical_id(st, "service", service_id)
        row1 == Put(Put(row_dict, "appointment_id", canonical_appointment_id),
                    "service_id", canonical_service_id)
        professional_id == Or(Get(row1, "professional_id"), Get(row1, "staff_id"))
        canonical_professional_id ==
            IF Truthy(professional_id) /\ ~IsNa(professional_id)
            THEN get_canonical_id(st, "professional", professional_id) ELSE None
        row2 == IF Truthy(canonical_professional_id)
                THEN Put(row1, "professional_id", canonical_professional_id) ELSE row1
        source_id == Or(Get(row2, "source_id"), appointment_id \o "_" \o service_id)
        row3 == Put(row2, "source_id", source_id)
    IN  IF Missing(appointment_id) \/ Missing(service_id) THEN st
        ELSE IF ~Truthy(canonical_appointment_id) \/ ~Truthy(canonical_service_id) THEN st
        ELSE upsert(st, "appointment_line", source_id, row3)

\* `for client_id, client_data in self.entities["client"].items(): if ... break`:
\* the key of the first client, in insertion order, whose full_name or name is
\* client_name; None when there is none.
RECURSIVE client_by_name(_, _, _)
client_by_name(tab, client_name, i) ==
    IF i > Len(tab.keys) THEN None
    ELSE LET client_data == tab.rec[tab.keys[i]]
         IN  IF Get(client_data, "full_name") = client_name
                \/ Get(client_data, "name") = client_name
             THEN tab.keys[i]
             ELSE client_by_name(tab, client_name, i + 1)

payment_row(st, row_dict) ==
    LET source_id == Get(row_dict, "source_id")
        client_name == Get(row_dict, "client_name")
        found == IF Truthy(client_name) /\ ~IsNa(client_name)
                 THEN client_by_name(st.entities["client"], client_name, 1) ELSE None
        row1 == IF Truthy(found) THEN Put(row_dict, "client_id", found) ELSE row_dict
    IN  IF Missing(source_id) THEN st
        ELSE upsert(st, "payment", source_id, with_business(st, row1))

outreach_message_row(st, row_dict) ==
    LET source_id == Or(Get(row_dict, "source_id"), Get(row_dict, "campaign_type"))
    IN  IF Missing(source_id) THEN st
        ELSE upsert(st, "outreach_message", source_id, with_business(st, row_dict))

\* A cell that is absent or pd.isna gets the default.
defaulted(row_dict, f, v) ==
    IF f \notin DOMAIN row_dict \/ IsNa(row_dict[f]) THEN Put(row_dict, f, v) ELSE row_dict

\* The input frames of the model carry no money columns, so net_sales and
\* sales_tax are 0.0 and subtotal and total default to 0.0.
product_sale_row(st, row_dict) ==
    LET source_id == Get(row_dict, "source_id")
        row1 == with_business(st, row_dict)
        row2 == defaulted(row1, "transaction_date", "now")
        row3 == defaulted(row2, "subtotal", "0.0")
        row4 == defaulted(row3, "total", "0.0")
    IN  IF Missing(source_id) THEN st
        ELSE upsert(st, "product_sale", source_id, row4)

\* `for ps_id, ps_data in self.entities["product_sale"].items(): if ... break`
RECURSIVE product_sale_by_name(_, _, _)
product_sale_by_name(tab, product_name, i) ==
    IF i > Len(tab.keys) THEN None
    ELSE IF Get(tab.rec[tab.keys[i]], "product_name") = product_name
         THEN tab.keys[i]
         ELSE product_sale_by_name(tab, product_name, i + 1)

\* The parent reference is kept as the row gave it; a missing one is searched
\* by product name and else replaced by "placeholder_<uuid>".
product_sale_line_row(st, row_dict) ==
    LET given == Get(row_dict, "product_sale_id")
        product_name == Get(row_dict, "product_name")
        found == IF Missing(given)
                 THEN product_sale_by_name(st.entities["product_sale"], product_name, 1)
                 ELSE given
        fresh == Missing(given) /\ Missing(found)
        product_sale_id == IF fresh THEN "placeholder_" \o Uuid(st.next_uuid) ELSE found
        st1  == IF fresh THEN [st EXCEPT !.next_uuid = @ + 1] ELSE st
        row1 == Put(row_dict, "product_sale_id", product_sale_id)
        source_id == Or(Get(row1, "source_id"), product_sale_id \o "_" \o product_name)
        row2 == Put(row1, "source_id", source_id)
        row3 == defaulted(row2, "quantity", "1")
        row4 == defaulted(row3, "unit_price", "0")
        row5 == defaulted(row4, "total_price", "0")
    IN  IF Missing(product_name) THEN st
        ELSE upsert(st1, "product_sale_line", source_id, row5)

\* resolve_business_entities with a seeded fault: no default business is made.
resolve_business_entities_no_default(st, df) ==
    LET after[i \in 0..Len(df)] ==
            IF i = 0 THEN st ELSE business_row(after[i - 1], df[i])
    IN  after[Len(df)]

\* _resolve_business_entities: a default business for an empty frame, and
\* again when the rows left the table empty.
resolve_business_entities(st, df) ==
    IF df = <<>> THEN default_business(st)
    ELSE LET after[i \in 0..Len(df)] ==
                 IF i = 0 THEN st ELSE business_row(after[i - 1], df[i])
             st2 == after[Len(df)]
         IN  IF st2.entities["business"].keys = <<>> THEN default_business(st2) ELSE st2

\* _resolve_<type>_entities for every other type: nothing for an empty frame,
\* else `for _, row in df.iterrows()`: the rows are handled in order, each on
\* the state the one before it left.
client_row(st, row_dict) == simple_row(st, "client", row_dict)
resolve_client_entities(st, df) ==
    LET after[i \in 0..Len(df)] ==
            IF i = 0 THEN st ELSE client_row(after[i - 1], df[i])
    IN  after[Len(df)]

professional_row(st, row_dict) == simple_row(st, "professional", row_dict)
resolve_professional_entities(st, df) ==
    LET after[i \in 0..Len(df)] ==
            IF i = 0 THEN st ELSE professional_row(after[i - 1], df[i])
    IN  after[Len(df)]

service_row(st, row_dict) == simple_row(st, "service", row_dict)
resolve_service_entities(st, df) ==
    LET after[i \in 0..Len(df)] ==
            IF i = 0 THEN st ELSE service_row(after[i - 1], df[i])
    IN  after[Len(df)]

package_row(st, row_dict) == simple_row(st, "package", row_dict)
resolve_package_entities(st, df) ==
    LET after[i \in 0..Len(df)] ==
            IF i = 0 THEN st ELSE package_row(after[i - 1], df[i])
    IN  after[Len(df)]

resolve_package_component_entities(st, df) ==
    LET after[i \in 0..Len(df)] ==
            IF i = 0 THEN st ELSE package_component_row(after[i - 1], df[i])
    IN  after[Len(df)]

resolve_appointment_entities(st, df) ==
    LET after[i \in 0..Len(df)] ==
            IF i = 0 THEN st ELSE appointment_row(after[i - 1], df[i])
    IN  after[Len(df)]

resolve_appointment_line_entities(st, df) ==
    LET after[i \in 0..Len(df)] ==
            IF i = 0 THEN st ELSE appointment_line_row(after[i - 1], df[i])
    IN  after[Len(df)]

resolve_payment_entities(st, df) ==
    LET after[i \in 0..Len(df)] ==
            IF i = 0 THEN st ELSE payment_row(after[i - 1], df[i])
    IN  after[Len(df)]

resolve_client_package_entities(st, df) ==
    LET after[i \in 0..Len(df)] ==
            IF i = 0 THEN st ELSE client_package_row(after[i - 1], df[i])
    IN  after[Len(df)]

resolve_outreach_message_entities(st, df) ==
    LET after[i \in 0..Len(df)] ==
            IF i = 0 THEN st ELSE outreach_message_row(after[i - 1], df[i])
    IN  after[Len(df)]

resolve_product_sale_entities(st, df) ==
    LET after[i \in 0..Len(df)] ==
            IF i = 0 THEN st ELSE product_sale_row(after[i - 1], df[i])
    IN  after[Len(df)]

resolve_product_sale_line_entities(st, df) ==
    LET after[i \in 0..Len(df)] ==
            IF i = 0 THEN st ELSE product_sale_line_row(after[i - 1], df[i])
    IN  after[Len(df)]

\* ResolveOrder with a seeded fault: appointment lines are resolved before appointments.
ResolveOrder_lines_first ==
    <<"business", "client", "professional", "service", "package",
      "package_component", "appointment_line", "appointment", "payment",
      "client_package", "outreach_message", "product_sale", "product_sale_line">>

\* The order of the calls in resolve_entities (resolver.py:57-90).
ResolveOrder == <<"business", "client", "professional", "service", "package",
                  "package_component", "appointment", "appointment_line", "payment",
                  "client_package", "outreach_message", "product_sale",
                  "product_sale_line">>


(***************************************************************************)
(* The input frames.  Each row is the dictionary row.to_dict() yields: one *)
(* entry per column of the frame.  A column the frame does not have is     *)
(* absent from the row; all rows of a frame have the same columns.  Where  *)
(* a frame has an "id" column, every row has a value in it.                *)
(***************************************************************************)
Rows(entity_type) ==
    CASE entity_type = "business" ->
            {[source_id |-> s] : s \in {"b1", None}}
      [] entity_type = "client" ->
            {[source_id |-> s, full_name |-> "n1"] : s \in {"c1", "c2", NaN}}
            \cup {[source_id |-> s, full_name |-> "n1", id |-> r] :
                        s \in {"c1", "c2"}, r \in {"r1", "r2"}}
      [] entity_type = "professional" ->
            {[source_id |-> s] : s \in {"p1", None}}
      [] entity_type = "service" ->
            {[source_id |-> s] : s \in {"v1", NaN}}
      [] entity_type = "package" ->
            {[source_id |-> s] : s \in {"k1", None}}
      [] entity_type = "package_component" ->
            {[package_id |-> k, service_id |-> "v1"] : k \in {"k1", None}}
            \cup {[package_id |-> "k1", service_id |-> "v1", source_id |-> "pc1"]}
      [] entity_type = "appointment" ->
            {[source_id |-> s, appointment_id |-> a, client_id |-> "c1",
              staff_id |-> f, professional_id |-> IF f = None THEN "p1" ELSE None] :
                s \in {"a1", None, NaN}, a \in {"a1", None}, f \in {"p1", None}}
      [] entity_type = "appointment_line" ->
            {[appointment_id |-> a, service_id |-> "v1", professional_id |-> "p1"] :
                a \in {"a1", None}}
      [] entity_type = "payment" ->
            {[source_id |-> "y1", client_name |-> n, client_id |-> c] :
                n \in {"n1", None}, c \in {"c1", None}}
      [] entity_type = "client_package" ->
            {[client_id |-> c, package_id |-> "k1"] : c \in {"c1", None}}
      [] entity_type = "outreach_message" ->
            {[source_id |-> "o1", campaign_type |-> None],
             [source_id |-> None, campaign_type |-> "g1"],
             [source_id |-> None, campaign_type |-> None]}
      [] entity_type = "product_sale" ->
            {[source_id |-> s, product_name |-> "w1"] : s \in {"q1", None}}
      [] entity_type = "product_sale_line" ->
            {[product_sale_id |-> q, product_name |-> "w1"] : q \in {"q1", None, NaN}}
            \cup {[product_sale_id |-> "q1", product_name |-> None]}

Min(a, b) == IF a <= b THEN a ELSE b

\* The frames of a type that fit the rows still allowed.
Frames(entity_type, room) ==
    {df \in SeqsUpTo(Rows(entity_type), Min(MaxFrame, room)) :
        \A i, j \in 1..Len(df) : DOMAIN df[i] = DOMAIN df[j]}

RowsRead == SeqSum([i \in 1..Len(ResolveOrder) |-> rows_read[ResolveOrder[i]]])

\* The state at the top of resolve_entities, after lines 48-49 have reset the
\* tables and the maps.
InitResolver ==
    /\ entities = [t \in EntityTypes |-> EmptyTable]
    /\ source_to_canonical = [t \in EntityTypes |-> EmptyDict]
    /\ next_uuid = 1
    /\ rpc = 1
    /\ rows_read = [t \in EntityTypes |-> 0]
    /\ resolved_types = <<>>

\* resolve_entities has reached the call for entity_type.
AtType(entity_type) ==
    /\ rpc <= Len(ResolveOrder)
    /\ ResolveOrder[rpc] = entity_type

\* One call of resolve_entities' body: the type is resolved from its frame,
\* dataframes.get(type, pd.DataFrame()).
Resolve(entity_type, df, st) ==
    /\ entities' = st.entities
    /\ source_to_canonical' = st.source_to_canonical
    /\ next_uuid' = st.next_uuid
    /\ rpc' = rpc + 1
    /\ rows_read' = [rows_read EXCEPT ![entity_type] = Len(df)]
    /\ resolved_types' = Append(resolved_types, entity_type)
    /\ UNCHANGED <<adapterVars, pipelineVars, scriptVars, componentVars>>

ResolveBusiness ==
    /\ AtType("business")
    /\ \E df \in Frames("business", MaxRows - RowsRead) :
          Resolve("business", df, resolve_business_entities(ResolverState, df))

ResolveClient ==
    /\ AtType("client")
    /\ \E df \in Frames("client", MaxRows - RowsRead) :
          Resolve("client", df, resolve_client_entities(ResolverState, df))

ResolveProfessional ==
    /\ AtType("professional")
    /\ \E df \in Frames("professional", MaxRows - RowsRead) :
          Resolve("professional", df, resolve_professional_entities(ResolverState, df))

ResolveService ==
    /\ AtType("service")
    /\ \E df \in Frames("service", MaxRows - RowsRead) :
          Resolve("service", df, resolve_service_entities(ResolverState, df))

ResolvePackage ==
    /\ AtType("package")
    /\ \E df \in Frames("package", MaxRows - RowsRead) :
          Resolve("package", df, resolve_package_entities(ResolverState, df))

ResolvePackageComponent ==
    /\ AtType("package_component")
    /\ \E df \in Frames("package_component", MaxRows - RowsRead) :
          Resolve("package_component", df, resolve_package_component_entities(ResolverState, df))

ResolveAppointment ==
    /\ AtType("appointment")
    /\ \E df \in Frames("appointment", MaxRows - RowsRead) :
          Resolve("appointment", df, resolve_appointment_entities(ResolverState, df))

ResolveAppointmentLine ==
    /\ AtType("appointment_line")
    /\ \E df \in Frames("appointment_line", MaxRows - RowsRead) :
          Resolve("appointment_line", df, resolve_appointment_line_entities(ResolverState, df))

ResolvePayment ==
    /\ AtType("payment")
    /\ \E df \in Frames("payment", MaxRows - RowsRead) :
          Resolve("payment", df, resolve_payment_entities(ResolverState, df))

ResolveClientPackage ==
    /\ AtType("client_package")
    /\ \E df \in Frames("client_package", MaxRows - RowsRead) :
          Resolve("client_package", df, resolve_client_package_entities(ResolverState, df))

ResolveOutreachMessage ==
    /\ AtType("outreach_message")
    /\ \E df \in Frames("outreach_message", MaxRows - RowsRead) :
          Resolve("outreach_message", df, resolve_outreach_message_entities(ResolverState, df))

ResolveProductSale ==
    /\ AtType("product_sale")
    /\ \E df \in Frames("product_sale", MaxRows - RowsRead) :
          Resolve("product_sale", df, resolve_product_sale_entities(ResolverState, df))

ResolveProductSaleLine ==
    /\ AtType("product_sale_line")
    /\ \E df \in Frames("product_sale_line", MaxRows - RowsRead) :
          Resolve("product_sale_line", df, resolve_product_sale_line_entities(ResolverState, df))

NextResolver ==
    \/ ResolveBusiness
    \/ ResolveClient
    \/ ResolveProfessional
    \/ ResolveService
    \/ ResolvePackage
    \/ ResolvePackageComponent
    \/ ResolveAppointment
    \/ ResolveAppointmentLine
    \/ ResolvePayment
    \/ ResolveClientPackage
    \/ ResolveOutreachMessage
    \/ ResolveProductSale
    \/ ResolveProductSaleLine

ResolverDone == rpc > Len(ResolveOrder)

(***************************************************************************)
(* Initial values of the machines that are not running.                    *)
(***************************************************************************)
IdleAdapter ==
    /\ apc = "idle"
    /\ adapter = None
    /\ adapter_in = EmptyDict
    /\ adapter_out = EmptyDict
    /\ adapter_uuid = 0

IdlePipeline ==
    /\ ppc = "idle"
    /\ config = None
    /\ output_dir_exists = FALSE
    /\ canonical_data = EmptyDict
    /\ validated_data = EmptyDict
    /\ cleaned_data = EmptyDict
    /\ resolved_data = EmptyDict
    /\ enriched_data = EmptyDict
    /\ stage_failed = {}
    /\ processing_statistics = EmptyDict
    /\ saved_files = {}
    /\ stats_file = <<>>
    /\ process_result = None
    /\ exit_code = <<>>

IdleScript ==
    /\ spc = "idle"
    /\ script_dataframes = EmptyDict
    /\ script_success = FALSE
    /\ script_summary = EmptyDict
    /\ script_output = FALSE
    /\ script_report = FALSE
    /\ script_exit = <<>>

IdleResolver ==
    /\ entities = EmptyDict
    /\ source_to_canonical = EmptyDict
    /\ next_uuid = 0
    /\ rpc = 0
    /\ rows_read = EmptyDict
    /\ resolved_types = <<>>

\* The result of the generic resolver: the records outside every cluster (a
\* list in the iteration order of a Python set, kept here as a set) followed
\* by one merged record for each cluster.
NoResolved == [unclustered |-> {}, merged |-> <<>>]

IdleGeneric ==
    /\ grpc = "idle"
    /\ gr_strategies = {}
    /\ gr_rules = <<>>
    /\ gr_entities = <<>>
    /\ gr_df = <<>>
    /\ gr_matches = <<>>
    /\ gr_clusters = <<>>
    /\ gr_resolved_entities = NoResolved

IdleDrivers == IdleResolver /\ IdleAdapter /\ IdlePipeline /\ IdleScript

\* ValidationResult.__init__, lines 38-50.
NewResult ==
    [total_records |-> 0, valid_records |-> 0, invalid_records |-> 0,
     errors |-> <<>>, valid_indices |-> <<>>, invalid_indices |-> <<>>]

IdleValidator ==
    /\ vpc = "idle"
    /\ fail_on_error = FALSE
    /\ v_rules = <<>>
    /\ v_data = <<>>
    /\ v_result = NewResult
    /\ v_outcome = None

IdleTransform ==
    /\ tpc = "idle"
    /\ t_driver = None
    /\ t_dataframes = EmptyDict
    /\ t_canonical = EmptyDict
    /\ t_raised = {}

IdleIngestion ==
    /\ ipc = "idle"
    /\ i_config = EmptyDict
    /\ i_crm_file = <<>>
    /\ i_standardized_data = <<>>
    /\ i_files = {}
    /\ i_result = None

IdleCleaner ==
    /\ cpc = "idle"
    /\ c_data = <<>>
    /\ c_rules = <<>>
    /\ c_cleaned = <<>>

IdleEnricher ==
    /\ epc = "idle"
    /\ e_metrics = {}
    /\ e_entities = <<>>
    /\ e_related = EmptyDict
    /\ e_rules = <<>>
    /\ e_i = 0
    /\ e_j = 0
    /\ e_entity = EmptyDict
    /\ e_enriched = <<>>

IdleComponents == IdleGeneric /\ IdleValidator /\ IdleTransform /\ IdleIngestion /\ IdleCleaner /\ IdleEnricher

\* Only the resolver runs.
InitSpecResolver ==
    InitResolver /\ IdleAdapter /\ IdlePipeline /\ IdleScript /\ IdleComponents

SpecResolver == InitSpecResolver /\ [][NextResolver]_vars


(***************************************************************************)
(* Properties of the canonical resolver.                                   *)
(***************************************************************************)
Keys(t) == DOMAIN entities[t].rec
Rec(t, k) == entities[t].rec[k]

\* The identifier a record was accepted with: the value the resolver looks up
\* in source_to_canonical before it decides between update and creation.
AcceptedId(t, r) ==
    CASE t = "appointment"      -> Or(Get(r, "source_id"), Get(r, "appointment_id"))
      [] t = "outreach_message" -> Or(Get(r, "source_id"), Get(r, "campaign_type"))
      [] OTHER                  -> Get(r, "source_id")

IsPrefix(s, t) == Len(s) <= Len(t) /\ s = SubSeq(t, 1, Len(s))

\* C1: the resolved table of every entity type holds at most one record per
\* source identifier: rows that carry the same source identifier end in one
\* record.
C1_OneRecordPerSourceId ==
    \A t \in EntityTypes : \A k1, k2 \in Keys(t) :
        k1 # k2 => AcceptedId(t, Rec(t, k1)) # AcceptedId(t, Rec(t, k2))

\* C2: canonical identifiers are unique per type and fixed at creation: two
\* source identifiers never lead to the same canonical identifier (no record
\* overwrites another), and every record carries the identifier it is stored
\* under.
C2_CanonicalIdUniqueAndFixed ==
    \A t \in EntityTypes :
        /\ \A s1, s2 \in DOMAIN source_to_canonical[t] :
               s1 # s2 => source_to_canonical[t][s1] # source_to_canonical[t][s2]
        /\ \A k \in Keys(t) : Rec(t, k)["id"] = k

\* The two parents of each child type: <<child, field, parent type>>.
ChildParents ==
    {<<"package_component", "package_id", "package">>,
     <<"package_component", "service_id", "service">>,
     <<"appointment_line", "appointment_id", "appointment">>,
     <<"appointment_line", "service_id", "service">>,
     <<"client_package", "client_id", "client">>,
     <<"client_package", "package_id", "package">>}

\* C3: every PackageComponent, AppointmentLine and ClientPackage record of the
\* resolved tables has both parent foreign keys equal to the canonical
\* identifier (the table key) of a record of the parent table; a child whose
\* parent did not resolve is not in the table.
C3_ChildrenReferenceResolvedParents ==
    \A cp \in ChildParents : \A k \in Keys(cp[1]) :
        /\ cp[2] \in DOMAIN Rec(cp[1], k)
        /\ Rec(cp[1], k)[cp[2]] \in Keys(cp[3])

\* C3 witness: the run is over and a child record was kept.
C3_Witness ==
    /\ ResolverDone
    /\ \E cp \in ChildParents : Keys(cp[1]) # {}

\* The foreign-key fields of the emitted records: <<type, field, parent type>>.
ForeignKeys ==
    ChildParents \cup
    {<<"appointment", "client_id", "client">>,
     <<"appointment", "professional_id", "professional">>,
     <<"appointment_line", "professional_id", "professional">>,
     <<"payment", "client_id", "client">>,
     <<"product_sale_line", "product_sale_id", "product_sale">>}

\* C4: every foreign key is rewired: a foreign-key field that names a parent
\* resolved in this run (its value is a source identifier of the parent's map)
\* holds the parent's canonical identifier.
C4_ForeignKeysRewired ==
    \A fk \in ForeignKeys : \A k \in Keys(fk[1]) :
        LET v == Get(Rec(fk[1], k), fk[2])
        IN  v \in DOMAIN source_to_canonical[fk[3]]
                => v = source_to_canonical[fk[3]][v]

\* The order of section 4.5 of the specification.
SpecOrder == <<"business", "professional", "service", "package", "package_component",
               "client", "appointment", "appointment_line", "payment",
               "client_package", "product_sale", "product_sale_line",
               "outreach_message">>

C6_DefaultBusiness ==
    (rpc > 2 /\ rows_read["business"] = 0 /\ rows_read["client"] > 0) =>
        /\ Len(entities["business"].keys) = 1
        /\ Cardinality(Keys("business")) = 1
        /\ \A b \in Keys("business") :
              /\ Rec("business", b)["source_id"] = "default"
              /\ Rec("business", b)["id"] = b
              /\ \A c \in Keys("client") : Get(Rec("client", c), "business_id") = b

\* C6 witness: the run is over, the business frame was empty and a client was
\* resolved.
C6_Witness ==
    /\ ResolverDone
    /\ rows_read["business"] = 0
    /\ rows_read["client"] > 0
    /\ Keys("client") # {}

\* The source identifiers the rows of a type carry.
SourceIds(t) ==
    {row["source_id"] : row \in {r \in Rows(t) : "source_id" \in DOMAIN r
                                                /\ ~Missing(r["source_id"])
                                                /\ r["source_id"] # ""}}

\* C22: a row without a source identifier is skipped entirely: every record
\* of a resolved table, the default business apart, carries a source
\* identifier that a row of its type came with, and so does every entry of
\* the source-id to canonical-id map.
C22_NoSourceIdNoRecord ==
    \A t \in EntityTypes :
        /\ \A k \in Keys(t) :
               Get(Rec(t, k), "source_id") \in SourceIds(t) \cup {"default"}
        /\ DOMAIN source_to_canonical[t] \subseteq SourceIds(t) \cup {"default"}

\* C26: every appointment of the resolved table is registered in the
\* source-id to canonical-id map under the identifier it was accepted with
\* (source_id, or appointment_id when source_id is absent), so that an
\* appointment line naming it can be resolved.
C26_AcceptedAppointmentIsRegistered ==
    \A k \in Keys("appointment") :
        LET accepted == AcceptedId("appointment", Rec("appointment", k))
        IN  /\ accepted \in DOMAIN source_to_canonical["appointment"]
            /\ source_to_canonical["appointment"][accepted] = k


(***************************************************************************)
(* The adapters' clinic foreign key.                                       *)
(*                                                                         *)
(* Two adapters turn Boulevard exports into records: the one the Full      *)
(* Pipeline uses (adapters/boulevard.py, "seeded") and the one of the      *)
(* ingestion package (data_ingestion/adapters/boulevard_adapter.py,        *)
(* "ingestion").  Both handle the clinic file first and give every         *)
(* provider and patient a clinic_id.  A file that is absent and a file     *)
(* without rows both yield no records, so one empty frame stands for both. *)
(***************************************************************************)
MaxAdapterRows == 2     \* rows of one source file

\* The part of processing_order (boulevard.py:46-50) and of the order of
\* standardize_schema that carries the clinic key.
AdapterOrder == <<"clinic", "provider", "patient">>

AdapterRows(file) ==
    CASE file = "clinic"   -> {[id |-> "L1"], [id |-> "L2"]}
      [] file = "provider" -> {[id |-> "s1"]}
      [] file = "patient"  -> {[source_id |-> "c1"], [source_id |-> "c2"]}

AdapterFrames(file) == SeqsUpTo(AdapterRows(file), MaxAdapterRows)

\* _transform_clinic: a fresh clinic_id for each row.
transform_clinic(df, n) ==
    [i \in 1..Len(df) |->
        [clinic_id |-> Uuid(n + i - 1), source_clinic_id |-> df[i].id]]

\* default_clinic_id of _transform_patient and _transform_provider:
\* clinic_ids maps source_clinic_id to clinic_id, a later clinic overwriting
\* an earlier one of the same source id; the default is the value under the
\* first key, or a fresh uuid4 when there is no clinic.
default_clinic_id(clinics, fresh) ==
    IF clinics = <<>> THEN fresh
    ELSE LET first == clinics[1].source_clinic_id
             last  == CHOOSE i \in 1..Len(clinics) :
                          /\ clinics[i].source_clinic_id = first
                          /\ \A j \in (i + 1)..Len(clinics) :
                                 clinics[j].source_clinic_id # first
         IN  clinics[last].clinic_id

\* The uuid4 values a transform draws: one per row, and one more for the
\* default clinic id when there is no clinic.
transform_draws(df, clinics) ==
    Len(df) + (IF clinics = <<>> THEN 1 ELSE 0)

\* _transform_provider
transform_provider(df, canonical, n) ==
    LET clinics == canonical["clinic"]
        dflt    == default_clinic_id(clinics, Uuid(n))
        m       == IF clinics = <<>> THEN n + 1 ELSE n
    IN  [i \in 1..Len(df) |->
            [provider_id |-> Uuid(m + i - 1), source_provider_id |-> df[i].id,
             clinic_id |-> dflt]]

\* _transform_patient
transform_patient(df, canonical, n) ==
    LET clinics == canonical["clinic"]
        dflt    == default_clinic_id(clinics, Uuid(n))
        m       == IF clinics = <<>> THEN n + 1 ELSE n
    IN  [i \in 1..Len(df) |->
            [patient_id |-> Uuid(m + i - 1), source_patient_id |-> df[i].source_id,
             clinic_id |-> dflt]]

\* generate_surrogate_key: f"{prefix}{i+1:06d}" for the i-th row.
SurrogateDigits == <<"000001", "000002", "000003", "000004">>
generate_surrogate_key(prefix, i) == prefix \o SurrogateDigits[i]

\* The clinic foreign key of _process_patient and _process_provider: the
\* first clinic's id, or None.
first_clinic_id(clinic_df) ==
    IF clinic_df # <<>> THEN clinic_df[1].clinic_id ELSE None

\* _process_clinic
process_clinic(df) ==
    [i \in 1..Len(df) |->
        [clinic_id |-> generate_surrogate_key("C", i), source_clinic_id |-> df[i].id]]

\* _process_provider
process_provider(df, clinic_df) ==
    [i \in 1..Len(df) |->
        [provider_id |-> generate_surrogate_key("PR", i),
         source_provider_id |-> df[i].id, clinic_id |-> first_clinic_id(clinic_df)]]

\* _process_patient
process_patient(df, clinic_df) ==
    [i \in 1..Len(df) |->
        [patient_id |-> generate_surrogate_key("P", i),
         source_patient_id |-> df[i].source_id,
         clinic_id |-> first_clinic_id(clinic_df)]]

\* After construction: no file read, every container of canonical_data an
\* empty list (boulevard.py:52-54).
InitAdapter ==
    /\ apc = 1
    /\ adapter \in {"seeded", "ingestion"}
    /\ adapter_in = EmptyDict
    /\ adapter_out = [t \in {"clinic", "provider", "patient"} |-> <<>>]
    /\ adapter_uuid = 1

AtFile(kind, file) ==
    /\ adapter = kind
    /\ apc \in 1..Len(AdapterOrder)
    /\ AdapterOrder[apc] = file

\* One step of the loop of transform_to_canonical / standardize_schema.
AdapterStep(file, df, records, draws) ==
    /\ adapter_in' = Put(adapter_in, file, df)
    /\ adapter_out' = Put(adapter_out, file, records)
    /\ adapter_uuid' = adapter_uuid + draws
    /\ apc' = apc + 1
    /\ UNCHANGED <<adapter, resolverVars, pipelineVars, scriptVars, componentVars>>

TransformClinic ==
    /\ AtFile("seeded", "clinic")
    /\ \E df \in AdapterFrames("clinic") :
          AdapterStep("clinic", df, transform_clinic(df, adapter_uuid), Len(df))

TransformProvider ==
    /\ AtFile("seeded", "provider")
    /\ \E df \in AdapterFrames("provider") :
          IF df = <<>>
          THEN AdapterStep("provider", df, <<>>, 0)
          ELSE AdapterStep("provider", df,
                           transform_provider(df, adapter_out, adapter_uuid),
                           transform_draws(df, adapter_out["clinic"]))

TransformPatient ==
    /\ AtFile("seeded", "patient")
    /\ \E df \in AdapterFrames("patient") :
          IF df = <<>>
          THEN AdapterStep("patient", df, <<>>, 0)
          ELSE AdapterStep("patient", df,
                           transform_patient(df, adapter_out, adapter_uuid),
                           transform_draws(df, adapter_out["clinic"]))

ProcessClinic ==
    /\ AtFile("ingestion", "clinic")
    /\ \E df \in AdapterFrames("clinic") :
          AdapterStep("clinic", df, process_clinic(df), 0)

ProcessProvider ==
    /\ AtFile("ingestion", "provider")
    /\ \E df \in AdapterFrames("provider") :
          AdapterStep("provider", df, process_provider(df, adapter_out["clinic"]), 0)

ProcessPatient ==
    /\ AtFile("ingestion", "patient")
    /\ \E df \in AdapterFrames("patient") :
          AdapterStep("patient", df, process_patient(df, adapter_out["clinic"]), 0)

NextAdapter ==
    \/ TransformClinic
    \/ TransformProvider
    \/ TransformPatient
    \/ ProcessClinic
    \/ ProcessProvider
    \/ ProcessPatient

AdapterDone == apc > Len(AdapterOrder)

\* Only an adapter runs.
InitSpecAdapter == InitAdapter /\ IdleResolver /\ IdlePipeline /\ IdleScript /\ IdleComponents

SpecAdapter == InitSpecAdapter /\ [][NextAdapter]_vars

\* The records of the adapter's output that carry a clinic foreign key.
ClinicChildren ==
    {adapter_out["provider"][i] : i \in 1..Len(adapter_out["provider"])}
        \cup {adapter_out["patient"][i] : i \in 1..Len(adapter_out["patient"])}

\* C7: when the source yields no clinic, the adapter's output holds exactly
\* one placeholder clinic, and the clinic_id of every provider and patient
\* is non-null and is that placeholder's id.
C7_OneDefaultClinic ==
    (AdapterDone /\ adapter_in["clinic"] = <<>> /\ ClinicChildren # {}) =>
        /\ Len(adapter_out["clinic"]) = 1
        /\ \A rec \in ClinicChildren :
              /\ rec.clinic_id # None
              /\ rec.clinic_id = adapter_out["clinic"][1].clinic_id


(***************************************************************************)
(* The Full Pipeline: Pipeline.process() of pipeline/orchestrator.py, run  *)
(* by run_pipeline of main.py.                                             *)
(*                                                                         *)
(* A data set is a dictionary from entity type to a list of records; the   *)
(* list is modelled by its length, since with the empty rule lists that    *)
(* process() passes, no stage removes or adds a record except              *)
(* build_relationships.  A stage raises when one of the calls it makes     *)
(* raises (a write of a report failing, an error inside a component); which*)
(* call does, if any, is an input of the stage's action.                   *)
(***************************************************************************)
MaxRecords == 2     \* records of one entity type

\* Three of the types of processing_order (boulevard.py:46-50), in its order.
PipelineTypes == <<"clinic", "packageComponent", "patient">>

PipelineTypeSet == {PipelineTypes[i] : i \in DOMAIN PipelineTypes}

\* The id field the seeded adapter gives the records of a type
\* (boulevard.py:118, 340, 184).
IdField(entity_type) ==
    CASE entity_type = "clinic"           -> "clinic_id"
      [] entity_type = "packageComponent" -> "package_component_id"
      [] entity_type = "patient"          -> "patient_id"

\* What transform_to_canonical returns: every type of the order has a list.
CanonicalDataSets == [PipelineTypeSet -> 0..MaxRecords]

\* `for entity_type, entities in data.items()`: the keys in insertion order.
Items(data) == SelectSeq(PipelineTypes, LAMBDA t : t \in DOMAIN data)

\* The call that raises in a stage: none, or a call made for one type.
NoFault == [at |-> None, call |-> None]
Faults(calls) == {NoFault} \cup [at : PipelineTypeSet, call : calls]

\* The initial value of self.processing_statistics (orchestrator.py:55-61).
InitialStatistics == [adapter |-> None, entities_processed |-> EmptyDict, errors |-> <<>>]

\* Stage 4, lines 222-253: validated_data starts as {} inside the try; an
\* empty list is copied; else validate_dataset is called, the valid records
\* are stored, and the report is written.
validate_stage(canonical, fault) ==
    LET items == Items(canonical)
        after[i \in 0..Len(items)] ==
            IF i = 0 THEN [data |-> EmptyDict, raised |-> FALSE]
            ELSE LET prev == after[i - 1]
                     t    == items[i]
                     kept == Put(prev.data, t, canonical[t])
                 IN  IF prev.raised THEN prev
                     ELSE IF canonical[t] = 0 THEN [prev EXCEPT !.data = kept]
                     ELSE IF fault = [at |-> t, call |-> "validate_dataset"]
                          THEN [prev EXCEPT !.raised = TRUE]
                     ELSE IF fault = [at |-> t, call |-> "write_report"]
                          THEN [data |-> kept, raised |-> TRUE]
                     ELSE [prev EXCEPT !.data = kept]
    IN  after[Len(items)]

\* Stage 5, lines 255-274: cleaned_data starts as {} inside the try.
clean_stage(validated, fault) ==
    LET items == Items(validated)
        after[i \in 0..Len(items)] ==
            IF i = 0 THEN [data |-> EmptyDict, raised |-> FALSE]
            ELSE LET prev == after[i - 1]
                     t    == items[i]
                     kept == Put(prev.data, t, validated[t])
                 IN  IF prev.raised THEN prev
                     ELSE IF validated[t] = 0 THEN [prev EXCEPT !.data = kept]
                     ELSE IF fault = [at |-> t, call |-> "clean_dataset"]
                          THEN [prev EXCEPT !.raised = TRUE]
                     ELSE [prev EXCEPT !.data = kept]
    IN  after[Len(items)]

\* Stage 6, lines 276-311: resolved_data starts as {} inside the try; a list
\* of at most one record is copied; with no match rule no records merge.
resolve_stage(cleaned, fault) ==
    LET items == Items(cleaned)
        after[i \in 0..Len(items)] ==
            IF i = 0 THEN [data |-> EmptyDict, raised |-> FALSE]
            ELSE LET prev == after[i - 1]
                     t    == items[i]
                     kept == Put(prev.data, t, cleaned[t])
                 IN  IF prev.raised THEN prev
                     ELSE IF cleaned[t] <= 1 THEN [prev EXCEPT !.data = kept]
                     ELSE IF fault = [at |-> t, call |-> "resolve_entities"]
                          THEN [prev EXCEPT !.raised = TRUE]
                     ELSE [prev EXCEPT !.data = kept]
    IN  after[Len(items)]

\* build_relationships with _build_entity_indexes (enricher.py:253-312): the
\* lists are rebuilt from indexes keyed by f"{entity_type}_id", which hold
\* the records that have that field.
build_relationships(data) ==
    [t \in DOMAIN data |-> IF IdField(t) = t \o "_id" THEN data[t] ELSE 0]

\* The loop of stage 7, lines 321-335: enriched_data starts as {}.
enrich_loop(resolved, fault) ==
    LET items == Items(resolved)
        after[i \in 0..Len(items)] ==
            IF i = 0 THEN [data |-> EmptyDict, raised |-> FALSE]
            ELSE LET prev == after[i - 1]
                     t    == items[i]
                     kept == Put(prev.data, t, resolved[t])
                 IN  IF prev.raised THEN prev
                     ELSE IF resolved[t] = 0 THEN [prev EXCEPT !.data = kept]
                     ELSE IF fault = [at |-> t, call |-> "enrich_entities"]
                          THEN [prev EXCEPT !.raised = TRUE]
                     ELSE [prev EXCEPT !.data = kept]
    IN  after[Len(items)]

\* Pipeline.__init__ has run; process() is about to call initialize().
InitPipeline ==
    /\ ppc = "initialize"
    /\ config \in {"valid", "missing_section", "unsupported_crm"}
    /\ output_dir_exists \in BOOLEAN
    /\ canonical_data = EmptyDict
    /\ validated_data = EmptyDict
    /\ cleaned_data = EmptyDict
    /\ resolved_data = EmptyDict
    /\ enriched_data = EmptyDict
    /\ stage_failed = {}
    /\ processing_statistics = InitialStatistics
    /\ saved_files = {}
    /\ stats_file = <<>>
    /\ process_result = None
    /\ exit_code = <<>>

\* The outer `except Exception as e` of process(), lines 351-354: the error
\* is recorded and _finalize_statistics is called.
PipelineError(message) ==
    /\ processing_statistics' =
           [processing_statistics EXCEPT !.errors = Append(@, message)]
    /\ ppc' = "finalize"

\* initialize(), lines 131-158.  _validate_config returns False for a
\* missing section before it looks at the directories; else it creates
\* output_dir.  An unknown CRM type raises after that.
Initialize ==
    /\ ppc = "initialize"
    /\ IF config = "missing_section"
       THEN /\ PipelineError("Invalid pipeline configuration")
            /\ UNCHANGED output_dir_exists
       ELSE /\ output_dir_exists' = TRUE
            /\ IF config = "unsupported_crm"
               THEN PipelineError("Unsupported CRM type")
               ELSE /\ processing_statistics' =
                          [processing_statistics EXCEPT !.adapter = "boulevard"]
                    /\ ppc' = "load"
    /\ UNCHANGED <<config, canonical_data, validated_data, cleaned_data, resolved_data,
                   enriched_data, stage_failed, saved_files, stats_file, process_result,
                   exit_code, resolverVars, adapterVars, scriptVars, componentVars>>

\* Stages 1 and 2, lines 168-177: the adapter loads and transforms; an
\* exception reaches the outer handler.
LoadAndTransform ==
    /\ ppc = "load"
    /\ \/ \E data \in CanonicalDataSets :
            /\ canonical_data' = data
            /\ ppc' = "profile"
            /\ UNCHANGED processing_statistics
       \/ /\ PipelineError("load failed")
          /\ UNCHANGED canonical_data
    /\ UNCHANGED <<config, output_dir_exists, validated_data, cleaned_data, resolved_data,
                   enriched_data, stage_failed, saved_files, stats_file, process_result,
                   exit_code, resolverVars, adapterVars, scriptVars, componentVars>>

\* The stage whose try block ran, with the failure recorded.
Failed(stage, raised) ==
    stage_failed' = IF raised THEN stage_failed \cup {stage} ELSE stage_failed

\* Stage 3, lines 180-220: profiles are written; the data is not touched.
ProfileData ==
    /\ ppc = "profile"
    /\ \E raised \in BOOLEAN : Failed("profiling", raised)
    /\ ppc' = "validate"
    /\ UNCHANGED <<config, output_dir_exists, canonical_data, validated_data, cleaned_data,
                   resolved_data, enriched_data, processing_statistics, saved_files,
                   stats_file, process_result, exit_code, resolverVars, adapterVars,
                   scriptVars, componentVars>>

\* Stage 4, lines 222-253.
ValidateData ==
    /\ ppc = "validate"
    /\ \E fault \in Faults({"validate_dataset", "write_report"}) :
          LET out == validate_stage(canonical_data, fault)
          IN  /\ validated_data' = out.data
              /\ Failed("validation", out.raised)
    /\ ppc' = "clean"
    /\ UNCHANGED <<config, output_dir_exists, canonical_data, cleaned_data, resolved_data,
                   enriched_data, processing_statistics, saved_files, stats_file,
                   process_result, exit_code, resolverVars, adapterVars, scriptVars,
                   componentVars>>

\* Stage 5, lines 255-274.
CleanData ==
    /\ ppc = "clean"
    /\ \E fault \in Faults({"clean_dataset"}) :
          LET out == clean_stage(validated_data, fault)
          IN  /\ cleaned_data' = out.data
              /\ Failed("cleaning", out.raised)
    /\ ppc' = "resolve"
    /\ UNCHANGED <<config, output_dir_exists, canonical_data, validated_data,
                   resolved_data, enriched_data, processing_statistics, saved_files,
                   stats_file, process_result, exit_code, resolverVars, adapterVars,
                   scriptVars, componentVars>>

\* Stage 6, lines 276-311.
ResolveData ==
    /\ ppc = "resolve"
    /\ \E fault \in Faults({"resolve_entities"}) :
          LET out == resolve_stage(cleaned_data, fault)
          IN  /\ resolved_data' = out.data
              /\ Failed("resolution", out.raised)
    /\ ppc' = "enrich"
    /\ UNCHANGED <<config, output_dir_exists, canonical_data, validated_data, cleaned_data,
                   enriched_data, processing_statistics, saved_files, stats_file,
                   process_result, exit_code, resolverVars, adapterVars, scriptVars,
                   componentVars>>

\* Stage 7, lines 313-338: enriched_data defaults to resolved_data;
\* build_relationships replaces resolved_data; then the loop.
EnrichData ==
    /\ ppc = "enrich"
    /\ \/ /\ enriched_data' = resolved_data
          /\ Failed("enrichment", TRUE)
          /\ UNCHANGED resolved_data
       \/ \E fault \in Faults({"enrich_entities"}) :
            LET built == build_relationships(resolved_data)
                out   == enrich_loop(built, fault)
            IN  /\ resolved_data' = built
                /\ enriched_data' = out.data
                /\ Failed("enrichment", out.raised)
    /\ ppc' = "save"
    /\ UNCHANGED <<config, output_dir_exists, canonical_data, validated_data, cleaned_data,
                   processing_statistics, saved_files, stats_file, process_result,
                   exit_code, resolverVars, adapterVars, scriptVars, componentVars>>

\* Stage 8, lines 340-349 with _save_canonical_data, lines 397-426: the
\* directory is made, one file is written for each type that has records,
\* and the counts are recorded; an exception reaches the outer handler.
SaveCanonicalData ==
    /\ ppc = "save"
    /\ output_dir_exists' = TRUE
    /\ \/ /\ saved_files' = {t \in DOMAIN enriched_data : enriched_data[t] > 0}
          /\ processing_statistics' =
                 [processing_statistics EXCEPT !.entities_processed = enriched_data]
          /\ ppc' = "finalize"
       \/ /\ PipelineError("save failed")
          /\ UNCHANGED saved_files
    /\ UNCHANGED <<config, canonical_data, validated_data, cleaned_data, resolved_data,
                   enriched_data, stage_failed, stats_file, process_result, exit_code,
                   resolverVars, adapterVars, scriptVars, componentVars>>

\* _finalize_statistics, lines 428-443: open(stats_path, 'w') needs the
\* directory; without it the FileNotFoundError leaves process().
FinalizeStatistics ==
    /\ ppc = "finalize"
    /\ IF output_dir_exists
       THEN /\ stats_file' = <<processing_statistics>>
            /\ process_result' = "returned"
       ELSE /\ process_result' = "raised"
            /\ UNCHANGED stats_file
    /\ ppc' = "ended"
    /\ UNCHANGED <<config, output_dir_exists, canonical_data, validated_data, cleaned_data,
                   resolved_data, enriched_data, stage_failed, processing_statistics,
                   saved_files, exit_code, resolverVars, adapterVars, scriptVars,
                   componentVars>>

\* run_pipeline of main.py, lines 140-156: 0 once process() has returned,
\* 1 when an exception reached its handler.
RunPipelineReturn ==
    /\ ppc = "ended"
    /\ exit_code' = IF process_result = "returned" THEN <<0>> ELSE <<1>>
    /\ ppc' = "exited"
    /\ UNCHANGED <<config, output_dir_exists, canonical_data, validated_data, cleaned_data,
                   resolved_data, enriched_data, stage_failed, processing_statistics,
                   saved_files, stats_file, process_result, resolverVars, adapterVars,
                   scriptVars, componentVars>>

NextPipeline ==
    \/ Initialize
    \/ LoadAndTransform
    \/ ProfileData
    \/ ValidateData
    \/ CleanData
    \/ ResolveData
    \/ EnrichData
    \/ SaveCanonicalData
    \/ FinalizeStatistics
    \/ RunPipelineReturn

\* Only the Full Pipeline runs.
InitSpecPipeline == InitPipeline /\ IdleResolver /\ IdleAdapter /\ IdleScript /\ IdleComponents

SpecPipeline == InitSpecPipeline /\ [][NextPipeline]_vars

\* A stage's except branch runs in this step.
FailsNow(stage) == stage \in stage_failed' /\ stage \notin stage_failed

\* C8: when one of stages 3-7 raises, the data it hands on is its input:
\* every type and every record that entered the stage.
C8_FailedStageHandsOnItsInput ==
    [][/\ (FailsNow("profiling")  => canonical_data' = canonical_data)
       /\ (FailsNow("validation") => validated_data' = canonical_data)
       /\ (FailsNow("cleaning")   => cleaned_data' = validated_data)
       /\ (FailsNow("resolution") => resolved_data' = cleaned_data)
       /\ (FailsNow("enrichment") => enriched_data' = resolved_data)]_vars

\* C9: once process() has ended, by returning or by raising,
\* processing_statistics.json has been written.
C9_StatisticsAlwaysWritten ==
    process_result # None => stats_file # <<>>

\* The run succeeded: process() returned and recorded no error.
PipelineSucceeded ==
    process_result = "returned" /\ processing_statistics.errors = <<>>

\* C10: run_pipeline returns 0 when the pipeline run succeeded and 1 when it
\* failed.
C10_ExitCodeTellsFailure ==
    exit_code # <<>> => (exit_code = <<0>> <=> PipelineSucceeded)

\* Stage 7 has run build_relationships in this step (orchestrator.py:319).
RelationshipsBuilt ==
    ppc = "enrich" /\ ppc' = "save" /\ resolved_data' = build_relationships(resolved_data)

\* C27: relationship building loses no data: every type passed to
\* build_relationships comes back with as many records as went in, so stage
\* 7 shrinks or empties no collection.
C27_RelationshipsLoseNoData ==
    [][RelationshipsBuilt =>
          \A t \in DOMAIN resolved_data :
              t \in DOMAIN resolved_data' /\ resolved_data'[t] = resolved_data[t]]_vars

\* What build_relationships keeps: the types, and the records of a type
\* whose id field is f"{entity_type}_id".
C27_TypesKeptAndNothingAdded ==
    [][RelationshipsBuilt =>
          /\ DOMAIN resolved_data' = DOMAIN resolved_data
          /\ \A t \in DOMAIN resolved_data :
                /\ resolved_data'[t] <= resolved_data[t]
                /\ (IdField(t) = t \o "_id" => resolved_data'[t] = resolved_data[t])]_vars


(***************************************************************************)
(* The process-script driver: main() and process_data() of                 *)
(* scripts/process.py.  A frame is modelled by its number of rows.         *)
(***************************************************************************)
MaxScriptRows == 2     \* rows of one loaded file

ScriptFiles == {"client", "appointment", "payment"}

\* What load_files can return: a frame for each file that was found.
ScriptDataframes ==
    UNION {[files -> 0..MaxScriptRows] : files \in SUBSET ScriptFiles}

\* main() has parsed its arguments.
InitScript ==
    /\ spc = "load_config"
    /\ script_dataframes = EmptyDict
    /\ script_success = FALSE
    /\ script_summary = EmptyDict
    /\ script_output = FALSE
    /\ script_report = FALSE
    /\ script_exit = <<>>

\* `except Exception as e` of process_data, lines 300-303.
ScriptRaise ==
    /\ script_success' = FALSE
    /\ script_summary' = [error |-> "error"]
    /\ spc' = "log"

\* load_config, lines 77-93: sys.exit(1) when the file cannot be read.
ScriptLoadConfig ==
    /\ spc = "load_config"
    /\ \/ /\ spc' = "load_files"
          /\ UNCHANGED script_exit
       \/ /\ spc' = "exited"
          /\ script_exit' = <<1>>
    /\ UNCHANGED <<script_dataframes, script_success, script_summary, script_output,
                   script_report, resolverVars, adapterVars, pipelineVars, componentVars>>

\* Step 1 of process_data, lines 190-204: no frame at all is a failure
\* with an empty summary.
ScriptLoadFiles ==
    /\ spc = "load_files"
    /\ \/ \E dataframes \in ScriptDataframes :
            /\ script_dataframes' = dataframes
            /\ IF dataframes = EmptyDict
               THEN /\ script_success' = FALSE
                    /\ script_summary' = EmptyDict
                    /\ spc' = "log"
               ELSE /\ spc' = "transform"
                    /\ UNCHANGED <<script_success, script_summary>>
       \/ /\ ScriptRaise
          /\ UNCHANGED script_dataframes
    /\ UNCHANGED <<script_output, script_report, script_exit, resolverVars, adapterVars,
                   pipelineVars, componentVars>>

\* Step 2, lines 206-249: transform and validate every frame.
ScriptTransform ==
    /\ spc = "transform"
    /\ \/ /\ spc' = "resolve"
          /\ UNCHANGED <<script_success, script_summary>>
       \/ ScriptRaise
    /\ UNCHANGED <<script_dataframes, script_output, script_report, script_exit,
                   resolverVars, adapterVars, pipelineVars, componentVars>>

\* Step 3, lines 251-260: the canonical resolver.
ScriptResolve ==
    /\ spc = "resolve"
    /\ \/ /\ spc' = "output"
          /\ UNCHANGED <<script_success, script_summary>>
       \/ ScriptRaise
    /\ UNCHANGED <<script_dataframes, script_output, script_report, script_exit,
                   resolverVars, adapterVars, pipelineVars, componentVars>>

\* Step 4, lines 262-271: generate_output writes the output file.
ScriptGenerateOutput ==
    /\ spc = "output"
    /\ \/ /\ script_output' = TRUE
          /\ spc' = "report"
          /\ UNCHANGED <<script_success, script_summary>>
       \/ /\ ScriptRaise
          /\ UNCHANGED script_output
    /\ UNCHANGED <<script_dataframes, script_report, script_exit, resolverVars,
                   adapterVars, pipelineVars, componentVars>>

\* Lines 274-298: generate_processing_report writes the report, and the
\* summary is returned with the success flag.
ScriptGenerateReport ==
    /\ spc = "report"
    /\ \/ /\ script_report' = TRUE
          /\ script_success' = TRUE
          /\ script_summary' = [files_processed |-> Cardinality(DOMAIN script_dataframes)]
          /\ spc' = "log"
       \/ /\ ScriptRaise
          /\ UNCHANGED script_report
    /\ UNCHANGED <<script_dataframes, script_output, script_exit, resolverVars,
                   adapterVars, pipelineVars, componentVars>>

\* main(), lines 342-351: the outcome is logged and main returns, so the
\* interpreter exits with status 0.
ScriptMainReturn ==
    /\ spc = "log"
    /\ script_exit' = <<0>>
    /\ spc' = "exited"
    /\ UNCHANGED <<script_dataframes, script_success, script_summary, script_output,
                   script_report, resolverVars, adapterVars, pipelineVars, componentVars>>

NextScript ==
    \/ ScriptLoadConfig
    \/ ScriptLoadFiles
    \/ ScriptTransform
    \/ ScriptResolve
    \/ ScriptGenerateOutput
    \/ ScriptGenerateReport
    \/ ScriptMainReturn

\* Only the process script runs.
InitSpecScript == InitScript /\ IdleResolver /\ IdleAdapter /\ IdlePipeline /\ IdleComponents

SpecScript == InitSpecScript /\ [][NextScript]_vars

\* The process-script part of C10: the script exits with status 0 only
\* when process_data reported success.
ScriptExitTellsFailure ==
    script_exit = <<0>> => script_success

\* C11: a process-script run that has failed (process_data reported no
\* success, because it raised or because no data was loaded) has left a
\* processing report behind by the time main returns.
C11_FailedRunLeavesReport ==
    (script_exit = <<0>> /\ ~script_success) => script_report

(***************************************************************************)
(* The generic resolver: EntityResolver of pipeline/resolver.py.  A record *)
(* is a dictionary with the scalar fields email and name.                  *)
(***************************************************************************)
MaxEntities == 4     \* records in the entities argument

\* The records the entities argument is made of; a value is a string, the
\* empty string or None.
EntityPool ==
    { [email |-> "a",  name |-> "x"],
      [email |-> "A",  name |-> "x"],
      [email |-> "a",  name |-> "y"],
      [email |-> "",   name |-> "x"],
      [email |-> None, name |-> "x"],
      [email |-> None, name |-> "y"] }

\* str(value) and str.lower() on these values.
str(value) == IF value = None THEN "None" ELSE value

lower(s) ==
    CASE s = "A"       -> "a"
      [] s = "None"    -> "none"
      [] s = "NO_SHOW" -> "no_show"
      [] s = "No_Show" -> "no_show"
      [] OTHER         -> s

\* The strings of a column in sorted order, the order in which groupby
\* yields its groups.
SortedValues == <<"", "A", "a", "none", "x", "y">>

\* pd.isna on a scalar.
isna(value) == value = None

\* fuzz.ratio on the strings above: they share no character unless equal.
ratio(val1, val2) == IF val1 = val2 THEN 100 ELSE 0

\* MatchRule.__init__, lines 12-29, with the default threshold (in percent).
MatchRule(strategy, fields) ==
    [strategy |-> strategy, fields |-> fields, threshold |-> 70]

GrRuleLists ==
    { <<>>,
      <<MatchRule("exact_match", <<"email">>)>>,
      <<MatchRule("exact_match", <<"email">>), MatchRule("exact_match", <<"name">>)>>,
      <<MatchRule("composite_key_match", <<"name", "email">>)>>,
      <<MatchRule("fuzzy_name_match", <<"name">>)>> }

\* self.strategies, line 76.
DefaultStrategies == {"exact_match", "fuzzy_name_match"}

\* A resolver and the rules it is called with: the default resolver with
\* each rule list, and one that enables composite_key_match with the
\* composite rule.
GrConfigs ==
    [strategies : {DefaultStrategies}, rules : GrRuleLists]
        \cup {[strategies |-> DefaultStrategies \cup {"composite_key_match"},
                rules |-> <<MatchRule("composite_key_match", <<"name", "email">>)>>]}

\* self.confidence_threshold, line 75 (in percent).
confidence_threshold == 70

\* str(i) for the row numbers, line 123.
IdStrings == <<"0", "1", "2", "3", "4", "5">>

RECURSIVE Flatten(_)
Flatten(seqs) == IF seqs = <<>> THEN <<>> ELSE Head(seqs) \o Flatten(Tail(seqs))

\* `for i, entity1 in enumerate(entities): for entity2 in entities[i+1:]`.
RECURSIVE pairs_within(_)
pairs_within(group) ==
    IF Len(group) <= 1 THEN <<>>
    ELSE [k \in 1..(Len(group) - 1) |-> <<group[1], group[k + 1]>>]
             \o pairs_within(Tail(group))

EntityMatch(entity1, entity2, confidence, match_type) ==
    [entity1_id |-> entity1["_id"], entity2_id |-> entity2["_id"],
     confidence |-> confidence, match_type |-> match_type]

\* The columns of a frame (every row has the same ones).
Columns(df) == IF df = <<>> THEN {} ELSE DOMAIN df[1]

\* pd.DataFrame(entities) with the _id column of _find_matches, lines 95
\* and 122-123.
with_id_column(records) ==
    IF "_id" \in Columns(records) THEN records
    ELSE [i \in 1..Len(records) |->
             [f \in DOMAIN records[i] \cup {"_id"} |->
                 IF f = "_id" THEN IdStrings[i] ELSE records[i][f]]]

\* _exact_match, lines 152-189: groupby drops the null keys; a group of one
\* and the group of the empty string give nothing.
exact_match(df, rule) ==
    LET match_field == rule.fields[1]
        keys == SelectSeq(SortedValues,
                          LAMBDA v : \E i \in DOMAIN df : df[i][match_field] = v)
        found(field_value) ==
            LET group == SelectSeq(df, LAMBDA row : row[match_field] = field_value)
            IN  IF Len(group) <= 1 \/ isna(field_value) \/ field_value = "" THEN <<>>
                ELSE LET pairs == pairs_within(group)
                     IN  [k \in DOMAIN pairs |->
                             EntityMatch(pairs[k][1], pairs[k][2], 100, "exact")]
    IN  Flatten([k \in DOMAIN keys |-> found(keys[k])])

\* _fuzzy_name_match, lines 191-245.
fuzzy_name_match(df, rule) ==
    LET pairs == pairs_within(df)
        val(entity, field) == lower(str(entity[field]))
        compared(pair) ==
            {field \in {rule.fields[k] : k \in DOMAIN rule.fields} :
                /\ val(pair[1], field) # ""
                /\ val(pair[2], field) # ""
                /\ ratio(val(pair[1], field), val(pair[2], field)) >= rule.threshold}
        \* total_score / len(matched_fields); each kept similarity is 100
        avg_score(pair) ==
            (100 * Cardinality(compared(pair))) \div Cardinality(compared(pair))
        matching == SelectSeq(pairs, LAMBDA pair :
                        compared(pair) # {} /\ avg_score(pair) >= rule.threshold)
    IN  [k \in DOMAIN matching |->
            EntityMatch(matching[k][1], matching[k][2], avg_score(matching[k]), "fuzzy")]

\* The tuple of line 262.
composite_key(row, fields) == [k \in DOMAIN fields |-> lower(str(row[fields[k]]))]

\* Every tuple of the given length over the sorted values, in sorted order.
RECURSIVE sorted_tuples(_)
sorted_tuples(n) ==
    IF n = 0 THEN << <<>> >>
    ELSE LET shorter == sorted_tuples(n - 1)
         IN  Flatten([v \in DOMAIN SortedValues |->
                         [t \in DOMAIN shorter |-> <<SortedValues[v]>> \o shorter[t]]])

\* The frame after line 261: the _composite_key column is added to df.
with_composite_key(df, rule) ==
    [i \in DOMAIN df |->
        [f \in DOMAIN df[i] \cup {"_composite_key"} |->
            IF f = "_composite_key" THEN composite_key(df[i], rule.fields) ELSE df[i][f]]]

\* _composite_key_match, lines 247-292, on the frame with the key column.
composite_key_match(keyed, rule) ==
    LET keys == SelectSeq(sorted_tuples(Len(rule.fields)),
                          LAMBDA key : \E i \in DOMAIN keyed : keyed[i]["_composite_key"] = key)
        found(key) ==
            LET group == SelectSeq(keyed, LAMBDA row : row["_composite_key"] = key)
            IN  IF Len(group) <= 1 \/ (\E k \in DOMAIN key : isna(key[k]) \/ key[k] = "")
                THEN <<>>
                ELSE LET pairs == pairs_within(group)
                     IN  [k \in DOMAIN pairs |->
                             EntityMatch(pairs[k][1], pairs[k][2], 100, "composite")]
    IN  Flatten([k \in DOMAIN keys |-> found(keys[k])])

\* The loop of _find_matches over the rules, lines 126-147: the frame (which
\* a composite rule changes) and the matches found so far.
find_matches_loop(df, rules, strategies) ==
    LET after[i \in 0..Len(rules)] ==
            IF i = 0 THEN [df |-> df, matches |-> <<>>]
            ELSE LET prev == after[i - 1]
                     rule == rules[i]
                 IN  IF rule.strategy \notin strategies THEN prev
                     ELSE IF ~(\A k \in DOMAIN rule.fields : rule.fields[k] \in Columns(prev.df))
                          THEN prev
                     ELSE IF rule.strategy = "exact_match"
                          THEN [prev EXCEPT !.matches = @ \o exact_match(prev.df, rule)]
                     ELSE IF rule.strategy = "fuzzy_name_match"
                          THEN [prev EXCEPT !.matches = @ \o fuzzy_name_match(prev.df, rule)]
                     ELSE IF rule.strategy = "composite_key_match"
                          THEN LET keyed == with_composite_key(prev.df, rule)
                               IN  [df |-> keyed,
                                    matches |-> prev.matches \o composite_key_match(keyed, rule)]
                     ELSE prev
    IN  after[Len(rules)]

\* _find_matches, lines 108-150: the low-confidence matches are dropped.
find_matches(df, rules, strategies) ==
    LET out == find_matches_loop(df, rules, strategies)
    IN  [df |-> out.df,
         matches |-> SelectSeq(out.matches, LAMBDA m : m.confidence >= confidence_threshold)]

\* find(x) of _build_clusters, lines 309-312, with its path compression:
\* the root of x and the parent map the call leaves.
RECURSIVE find(_, _)
find(parent, x) ==
    IF parent[x] # x
    THEN LET up == find(parent, parent[x])
         IN  [parent |-> [up.parent EXCEPT ![x] = up.root], root |-> up.root]
    ELSE [parent |-> parent, root |-> x]

\* With a seeded fault: the root of x is not followed, the parent of x
\* itself is called its root.
union_links_node(parent, x, y) ==
    LET fy == find(parent, y)
    IN  [fy.parent EXCEPT ![x] = fy.root]

\* union(x, y), lines 315-316: `parent[find(x)] = find(y)`; Python evaluates
\* the right side first.
union(parent, x, y) ==
    LET fy == find(parent, y)
        fx == find(fy.parent, x)
    IN  [fx.parent EXCEPT ![fx.root] = fy.root]

\* _build_clusters, lines 294-331: the clusters in the order in which their
\* roots are first met, those of one member left out.
build_clusters(entity_ids, matches) ==
    LET ids == {entity_ids[i] : i \in DOMAIN entity_ids}
        united[i \in 0..Len(matches)] ==
            IF i = 0 THEN [id \in ids |-> id]
            ELSE union(united[i - 1], matches[i].entity1_id, matches[i].entity2_id)
        parent == united[Len(matches)]
        root(id) == find(parent, id).root
        firsts == SelectSeq(entity_ids,
                      LAMBDA id : \A j \in DOMAIN entity_ids :
                          (root(entity_ids[j]) = root(id) /\ entity_ids[j] # id) =>
                              \E k \in 1..(j - 1) : entity_ids[k] = id)
        clusters == [k \in DOMAIN firsts |-> {id \in ids : root(id) = root(firsts[k])}]
    IN  SelectSeq(clusters, LAMBDA cluster : Cardinality(cluster) > 1)

\* The fields of a record that the merge looks at: `key == '_id' or
\* key.startswith('_')` is skipped.
Internal(key) == key \in {"_id", "_composite_key", "_merged_from"}

\* merge_member with a seeded fault: the member's id is not recorded.
merge_member_untracked(merged, entity) ==
    [key \in DOMAIN merged \cup DOMAIN entity |->
        IF key \notin DOMAIN entity \/ Internal(key) THEN merged[key]
        ELSE IF key \notin DOMAIN merged THEN entity[key]
        ELSE IF isna(merged[key]) \/ merged[key] = "" THEN entity[key]
        ELSE merged[key]]

\* One member merged into the accumulated record, lines 384-405; all values
\* here are scalars, so the list and dict branches are not taken.
merge_member(merged, entity) ==
    [key \in DOMAIN merged \cup DOMAIN entity |->
        IF key = "_merged_from" THEN Append(merged["_merged_from"], entity["_id"])
        ELSE IF key \notin DOMAIN entity \/ Internal(key) THEN merged[key]
        ELSE IF key \notin DOMAIN merged THEN entity[key]
        ELSE IF isna(merged[key]) \/ merged[key] = "" THEN entity[key]
        ELSE merged[key]]

\* _merge_entity_group, lines 363-407, for a list that is not empty.
merge_entity_group(cluster_entities) ==
    LET first == cluster_entities[1]
        start == [key \in DOMAIN first \cup {"_merged_from"} |->
                     IF key = "_merged_from" THEN <<first["_id"]>> ELSE first[key]]
        after[i \in 1..Len(cluster_entities)] ==
            IF i = 1 THEN start ELSE merge_member(after[i - 1], cluster_entities[i])
    IN  after[Len(cluster_entities)]

\* The orders in which `for id in cluster` can yield a set of strings.
IterationOrders(cluster) ==
    {order \in [1..Cardinality(cluster) -> cluster] :
        \A i, j \in DOMAIN order : i # j => order[i] # order[j]}

\* _merge_entities, lines 333-361, with the members of each cluster taken in
\* the given orders.
merge_entities(df, clusters, orders) ==
    LET entities_by_id == [id \in {df[i]["_id"] : i \in DOMAIN df} |->
                              df[CHOOSE i \in DOMAIN df :
                                     /\ df[i]["_id"] = id
                                     /\ \A j \in DOMAIN df : df[j]["_id"] = id => j <= i]]
        all_clustered_ids == UNION {clusters[k] : k \in DOMAIN clusters}
        unclustered_ids == DOMAIN entities_by_id \ all_clustered_ids
    IN  [unclustered |-> {entities_by_id[id] : id \in unclustered_ids},
         merged |-> [k \in DOMAIN clusters |->
                        merge_entity_group([m \in DOMAIN orders[k] |->
                                               entities_by_id[orders[k][m]]])]]

\* resolve_entities is called with a list of records, a list of rules and a
\* resolver built with one of the strategy sets.
InitGeneric ==
    /\ grpc = "resolve_entities"
    /\ \E c \in GrConfigs : gr_strategies = c.strategies /\ gr_rules = c.rules
    /\ gr_entities \in SeqsUpTo(EntityPool, MaxEntities)
    /\ gr_df = <<>>
    /\ gr_matches = <<>>
    /\ gr_clusters = <<>>
    /\ gr_resolved_entities = NoResolved

\* Lines 91-92: a list of at most one record is returned as it is.
GrReturnEntities ==
    /\ grpc = "resolve_entities"
    /\ Len(gr_entities) <= 1
    /\ gr_resolved_entities' =
           [unclustered |-> {gr_entities[i] : i \in DOMAIN gr_entities}, merged |-> <<>>]
    /\ grpc' = "done"
    /\ UNCHANGED <<gr_strategies, gr_rules, gr_entities, gr_df, gr_matches, gr_clusters,
                   besidesGeneric>>

\* Lines 95-98: the frame is built and _find_matches runs on it.
GrFindMatches ==
    /\ grpc = "resolve_entities"
    /\ Len(gr_entities) > 1
    /\ LET out == find_matches(with_id_column(gr_entities), gr_rules, gr_strategies)
       IN  /\ gr_df' = out.df
           /\ gr_matches' = out.matches
    /\ grpc' = "build_clusters"
    /\ UNCHANGED <<gr_strategies, gr_rules, gr_entities, gr_clusters,
                   gr_resolved_entities, besidesGeneric>>

\* Line 101.
GrBuildClusters ==
    /\ grpc = "build_clusters"
    /\ gr_clusters' = build_clusters([i \in DOMAIN gr_df |-> gr_df[i]["_id"]], gr_matches)
    /\ grpc' = "merge_entities"
    /\ UNCHANGED <<gr_strategies, gr_rules, gr_entities, gr_df, gr_matches,
                   gr_resolved_entities, besidesGeneric>>

\* Lines 104-106.
GrMergeEntities ==
    /\ grpc = "merge_entities"
    /\ \E orders \in [DOMAIN gr_clusters -> UNION {IterationOrders(gr_clusters[k]) :
                                                     k \in DOMAIN gr_clusters}] :
          /\ \A k \in DOMAIN gr_clusters : orders[k] \in IterationOrders(gr_clusters[k])
          /\ gr_resolved_entities' = merge_entities(gr_df, gr_clusters, orders)
    /\ grpc' = "done"
    /\ UNCHANGED <<gr_strategies, gr_rules, gr_entities, gr_df, gr_matches, gr_clusters,
                   besidesGeneric>>

NextGeneric ==
    \/ GrReturnEntities
    \/ GrFindMatches
    \/ GrBuildClusters
    \/ GrMergeEntities

\* Only the generic resolver runs.
InitSpecGeneric == InitGeneric /\ IdleDrivers /\ IdleValidator /\ IdleTransform /\ IdleIngestion /\ IdleCleaner /\ IdleEnricher

SpecGeneric == InitSpecGeneric /\ [][NextGeneric]_vars

\* The clusters have been built in this run.
ClustersBuilt == grpc \in {"merge_entities", "done"} /\ Len(gr_entities) > 1

GrIds == {gr_df[i]["_id"] : i \in DOMAIN gr_df}

\* Two records are joined by a retained match.
Matched(id1, id2) ==
    \E k \in DOMAIN gr_matches :
        \/ gr_matches[k].entity1_id = id1 /\ gr_matches[k].entity2_id = id2
        \/ gr_matches[k].entity1_id = id2 /\ gr_matches[k].entity2_id = id1

\* The records a chain of retained matches connects to the given ones.
RECURSIVE ConnectedTo(_)
ConnectedTo(ids) ==
    LET more == ids \cup {id \in GrIds : \E other \in ids : Matched(id, other)}
    IN  IF more = ids THEN ids ELSE ConnectedTo(more)

Components == {ConnectedTo({id}) : id \in GrIds}

\* C12: the clusters are exactly the connected components of the match graph
\* that have more than one member, each listed once, so no record is in two
\* clusters.
C12_ClustersAreComponents ==
    ClustersBuilt =>
        /\ {gr_clusters[k] : k \in DOMAIN gr_clusters}
               = {component \in Components : Cardinality(component) > 1}
        /\ \A k, l \in DOMAIN gr_clusters :
               k # l => gr_clusters[k] \cap gr_clusters[l] = {}

\* A cluster holds two records that only a chain of matches connects.
C12_Witness ==
    /\ ClustersBuilt
    /\ \E k \in DOMAIN gr_clusters :
          \E id1, id2 \in gr_clusters[k] : id1 # id2 /\ ~Matched(id1, id2)

\* resolve_entities has returned the result of a merge.
Merged == grpc = "done" /\ Len(gr_entities) > 1

ClusteredIds == UNION {gr_clusters[k] : k \in DOMAIN gr_clusters}

\* C13: the output has one record for each unclustered input record and one
\* for each cluster, and the _merged_from list of a merged record holds
\* each id of its cluster once and nothing else.
C13_OutputAccountsForEveryRecord ==
    Merged =>
        LET out == gr_resolved_entities
        IN  /\ Cardinality(out.unclustered) + Len(out.merged)
                   = Cardinality(GrIds \ ClusteredIds) + Len(gr_clusters)
            /\ {rec["_id"] : rec \in out.unclustered} = GrIds \ ClusteredIds
            /\ Len(out.merged) = Len(gr_clusters)
            /\ \A k \in DOMAIN out.merged :
                  LET from == out.merged[k]["_merged_from"]
                  IN  /\ {from[i] : i \in DOMAIN from} = gr_clusters[k]
                      /\ Len(from) = Cardinality(gr_clusters[k])

\* Four records in two exact-match pairs gave two merged records.
C13_Witness ==
    /\ Merged
    /\ Len(gr_entities) = 4
    /\ \A k \in DOMAIN gr_matches : gr_matches[k].match_type = "exact"
    /\ Len(gr_resolved_entities.merged) = 2
    /\ gr_resolved_entities.unclustered = {}
    /\ \A k \in DOMAIN gr_resolved_entities.merged :
          Len(gr_resolved_entities.merged[k]["_merged_from"]) = 2

\* The input record that got the given id.
InputOf(id) == gr_entities[CHOOSE i \in DOMAIN gr_entities : IdStrings[i] = id]

\* C14: a record outside every cluster is in the output exactly as it was
\* in the input: no field added, removed or altered.
C14_UnclusteredUnchanged ==
    grpc = "done" =>
        \A i \in DOMAIN gr_entities :
            IdStrings[i] \notin ClusteredIds =>
                gr_entities[i] \in gr_resolved_entities.unclustered

\* The input positions of the members of a cluster, in input order.
MembersInOrder(cluster) ==
    SelectSeq([i \in DOMAIN gr_entities |-> i], LAMBDA i : IdStrings[i] \in cluster)

\* C15: where the members of a cluster carry non-empty values for a field,
\* the merged record has the value of the member that is first in the input.
C15_FirstInInputWins ==
    Merged =>
        \A k \in DOMAIN gr_clusters : \A field \in {"email", "name"} :
            LET members == MembersInOrder(gr_clusters[k])
                filled  == SelectSeq(members, LAMBDA i :
                               ~isna(gr_entities[i][field]) /\ gr_entities[i][field] # "")
            IN  filled # <<>> =>
                    gr_resolved_entities.merged[k][field] = gr_entities[filled[1]][field]

\* C16: no composite match joins two records through a key with an absent
\* or empty component.
C16_NoMatchOnIncompleteKey ==
    \A k \in DOMAIN gr_matches :
        gr_matches[k].match_type = "composite" =>
            \A id \in {gr_matches[k].entity1_id, gr_matches[k].entity2_id} :
                \A f \in DOMAIN gr_rules[1].fields :
                    LET value == InputOf(id)[gr_rules[1].fields[f]]
                    IN  ~isna(value) /\ value # ""

\* Two records of the input have the same composite key, every component
\* of which is present and not empty.
EqualPopulatedKeys ==
    \E i, j \in DOMAIN gr_entities :
        /\ i < j
        /\ \A f \in {"name", "email"} :
               /\ ~isna(gr_entities[i][f])
               /\ gr_entities[i][f] # ""
               /\ lower(str(gr_entities[i][f])) = lower(str(gr_entities[j][f]))

\* C30: a resolver built with the default configuration evaluates a
\* composite_key_match rule: two records with equal, fully populated
\* composite keys are reported as a match and merged.
C30_DefaultEvaluatesCompositeRule ==
    (/\ grpc = "done"
     /\ gr_strategies = DefaultStrategies
     /\ gr_rules = <<MatchRule("composite_key_match", <<"name", "email">>)>>
     /\ EqualPopulatedKeys)
        => /\ gr_matches # <<>>
           /\ gr_resolved_entities.merged # <<>>

(***************************************************************************)
(* The rule-based validator: DataValidator.validate_dataset of             *)
(* pipeline/validator.py, with rules of type required.                     *)
(***************************************************************************)
MaxData == 10     \* records in the data argument

\* self.error_threshold, line 172: the default 0.2, in percent.
error_threshold == 20

\* The records of the data argument: the field has a value or is None.
DataPool == {[name |-> "v"], [name |-> None]}

ValidationRule(field, rule_type) == [field |-> field, rule_type |-> rule_type]

VRuleLists == {<<>>, <<ValidationRule("name", "required")>>}

\* _validate_required, lines 278-281.
validate_required(value) == value # None /\ value # ""

\* ValidationResult.add_error, lines 52-77 (record_index counts from 0).
add_error(result, record_index, field, rule_type) ==
    [result EXCEPT
        !.errors = Append(@, [record_index |-> record_index, field |-> field,
                              rule_type |-> rule_type]),
        !.invalid_indices =
            IF \E k \in DOMAIN @ : @[k] = record_index THEN @ ELSE Append(@, record_index)]

\* validate_record, lines 222-255.
validate_record(record, rules, record_index, result) ==
    LET after[i \in 0..Len(rules)] ==
            IF i = 0 THEN result
            ELSE LET prev == after[i - 1]
                     rule == rules[i]
                     value == IF rule.field \in DOMAIN record THEN record[rule.field] ELSE None
                 IN  IF rule.field \notin DOMAIN record /\ rule.rule_type # "required" THEN prev
                     ELSE IF rule.rule_type # "required" THEN prev
                     ELSE IF validate_required(value) THEN prev
                     ELSE add_error(prev, record_index, rule.field, rule.rule_type)
    IN  after[Len(rules)]

\* ValidationResult.calculate_metrics, lines 79-98.
calculate_metrics(result) ==
    LET indices == [i \in 1..result.total_records |-> i - 1]
        valid_indices ==
            SelectSeq(indices, LAMBDA i :
                ~\E k \in DOMAIN result.invalid_indices : result.invalid_indices[k] = i)
    IN  [result EXCEPT !.valid_indices = valid_indices,
                       !.valid_records = Len(valid_indices),
                       !.invalid_records = Len(result.invalid_indices)]

\* below_threshold with a seeded fault: the cutoff itself counts as below.
below_or_at_threshold(valid_records, total_records) ==
    total_records > 0 /\ valid_records * 100 <= (100 - error_threshold) * total_records

\* Lines 215-216: valid_percentage < (1.0 - self.error_threshold), where
\* valid_percentage is 1.0 for no records.
below_threshold(valid_records, total_records) ==
    total_records > 0 /\ valid_records * 100 < (100 - error_threshold) * total_records

\* validate_dataset up to the threshold test, lines 204-212.
validated(data, rules) ==
    LET start == [NewResult EXCEPT !.total_records = Len(data)]
        after[i \in 0..Len(data)] ==
            IF i = 0 THEN start
            ELSE validate_record(data[i], rules, i - 1, after[i - 1])
    IN  calculate_metrics(after[Len(data)])

\* A validator and the arguments of one call of validate_dataset.
InitValidator ==
    /\ vpc = "validate_dataset"
    /\ fail_on_error \in BOOLEAN
    /\ v_rules \in VRuleLists
    /\ v_data \in SeqsUpTo(DataPool, MaxData)
    /\ v_result = NewResult
    /\ v_outcome = None

\* validate_dataset, lines 189-220.
ValidateDataset ==
    /\ vpc = "validate_dataset"
    /\ LET result == validated(v_data, v_rules)
       IN  /\ v_result' = result
           /\ v_outcome' =
                  IF fail_on_error /\ below_threshold(result.valid_records, result.total_records)
                  THEN "raised" ELSE "returned"
    /\ vpc' = "done"
    /\ UNCHANGED <<fail_on_error, v_rules, v_data, besidesValidator>>

NextValidator == ValidateDataset

\* Only the validator runs.
InitSpecValidator == InitValidator /\ IdleDrivers /\ IdleGeneric /\ IdleTransform /\ IdleIngestion /\ IdleCleaner /\ IdleEnricher

SpecValidator == InitSpecValidator /\ [][NextValidator]_vars

\* The records of the data that pass every rule.
ValidRecordCount ==
    Cardinality({i \in DOMAIN v_data :
        \A k \in DOMAIN v_rules :
            v_rules[k].rule_type = "required" =>
                (v_data[i][v_rules[k].field] # None /\ v_data[i][v_rules[k].field] # "")})

\* C17: validate_dataset raises exactly when fail_on_error is set and the
\* fraction of valid records is strictly below 1 - error_threshold (80%);
\* otherwise it returns a result whose valid_records is the number of valid
\* records: 7 valid of 10 raises, 9 valid of 10 returns valid_records = 9.
C17_RaisesBelowThreshold ==
    vpc = "done" =>
        /\ v_outcome = "raised" <=>
               (fail_on_error /\ ValidRecordCount * 100 < 80 * Len(v_data))
        /\ v_outcome = "returned" => v_result.valid_records = ValidRecordCount
        /\ (fail_on_error /\ Len(v_data) = 10 /\ ValidRecordCount = 7) => v_outcome = "raised"
        /\ (fail_on_error /\ Len(v_data) = 10 /\ ValidRecordCount = 9) =>
               (v_outcome = "returned" /\ v_result.valid_records = 9)

\* Ten records of which three fail the required rule: the call raised.
C17_Witness ==
    /\ vpc = "done"
    /\ fail_on_error
    /\ Len(v_data) = 10
    /\ ValidRecordCount = 7
    /\ v_outcome = "raised"

(***************************************************************************)
(* The entity transforms: BoulevardAdapter.transform_to_canonical of       *)
(* adapters/boulevard.py (the seeded adapter) with its package and         *)
(* appointment transforms, _process_appointment of                         *)
(* data_ingestion/adapters/boulevard_adapter.py (the ingestion adapter),   *)
(* and the regular and derived transform loops of process_data in          *)
(* scripts/process.py with transform_entity of                             *)
(* adapters/boulevard_adapter.py.  A record keeps the fields that the      *)
(* properties below read; identifiers and timestamps are left out.  A      *)
(* call that can raise yields <<its value>>, or <<>> when it raised.       *)
(***************************************************************************)
MaxTransformRows == 2     \* rows of one loaded frame

\* The status-bearing columns an appointment frame can carry.
AppointmentColumns == {"cancellation_reason", "appointment_state"}

\* The cells read_csv yields in such a column: an empty cell is NaN.
ColumnValues(column) ==
    IF column = "cancellation_reason"
    THEN {NaN, "late"}
    ELSE {NaN, "NO_SHOW", "no_show", "confirmed"}

AppointmentRows(columns) ==
    {row \in [columns -> {NaN, "late", "NO_SHOW", "no_show", "confirmed"}] :
        \A column \in columns : row[column] \in ColumnValues(column)}

AppointmentFrames ==
    UNION {SeqsUpTo(AppointmentRows(columns), MaxTransformRows) :
               columns \in SUBSET AppointmentColumns}

notna(value) == ~IsNa(value)

\* _transform_appointment, lines 451-463: the status of one row.  The set
\* column_map holds the fields for which the frame has a column.
appointment_status(row) ==
    LET column_map == DOMAIN row
        after_reason ==
            IF /\ "cancellation_reason" \in column_map
               /\ notna(row["cancellation_reason"])
               /\ row["cancellation_reason"] # ""
            THEN "cancelled" ELSE "completed"
    IN  IF /\ "appointment_state" \in column_map
           /\ notna(row["appointment_state"])
           /\ lower(row["appointment_state"]) = "no_show"
        THEN "no-show" ELSE after_reason

\* The appointment entity of lines 466-478.
appointment_entity(row) ==
    LET cancellation_reason ==
            IF "cancellation_reason" \in DOMAIN row THEN row["cancellation_reason"] ELSE ""
    IN  [status |-> appointment_status(row),
         cancellation_reason |->
             IF notna(cancellation_reason) THEN str(cancellation_reason) ELSE ""]

\* _transform_appointment, lines 409-485: every row is transformed inside
\* its own try, and nothing in it raises on the cells of a CSV file.
transform_appointment(df) ==
    <<[i \in 1..Len(df) |-> appointment_entity(df[i])]>>

\* status_map of _process_appointment, lines 490-495, applied with
\* Series.map: a state that is not a key becomes NaN.
status_map(appointment_state) ==
    CASE appointment_state = "confirmed" -> "completed"
      [] appointment_state = "no_show"   -> "no-show"
      [] appointment_state = "cancelled" -> "cancelled"
      [] OTHER                           -> NaN

\* _process_appointment, lines 487-502: the status and cancellation_reason
\* columns of the standardized frame.
process_appointment(df) ==
    [i \in 1..Len(df) |->
        [status |->
             IF "status" \in Columns(df) THEN df[i]["status"]
             ELSE IF "appointment_state" \in Columns(df)
                  THEN status_map(df[i]["appointment_state"])
                  ELSE None,
         cancellation_reason |->
             IF "cancellation_reason" \in Columns(df)
             THEN df[i]["cancellation_reason"] ELSE None]]

\* The cells of the gross_package_sales column of a package frame: read_csv
\* keeps every cell of a column with one non-numeric cell as a string, and
\* an empty cell is NaN.
PackageRows == [gross_package_sales : {"100", "250", "abc", NaN}]

PackageFrames == SeqsUpTo(PackageRows, MaxTransformRows)

\* The cells of the base_price column of a service frame; standardize_schema
\* fills the column with None when the file has no such column.
ServiceRows == [base_price : {"100", "abc", None, NaN}]

ServiceFrames == SeqsUpTo(ServiceRows, MaxTransformRows)

\* float(value): a float is written as Python prints it.  A numeral gives
\* its number and NaN gives nan; any other string raises ValueError and
\* None raises TypeError.
float(value) ==
    CASE value = "100" -> <<"100.0">>
      [] value = "250" -> <<"250.0">>
      [] value = NaN   -> <<"nan">>
      [] OTHER         -> <<>>

\* _transform_service, lines 256-264: the base price of one row.
service_base_price(base_price) ==
    IF base_price = None THEN "0.0"
    ELSE IF float(base_price) = <<>> THEN "0.0"
    ELSE float(base_price)[1]

\* _transform_service, lines 244-282: no row raises.
transform_service(df) ==
    <<[i \in 1..Len(df) |-> [base_price |-> service_base_price(df[i]["base_price"])]]>>

\* _transform_package, lines 295-310: the loop over the rows has no try of
\* its own, so the first row whose price float() rejects ends the call.
transform_package(df) ==
    LET list_price == [i \in 1..Len(df) |-> float(df[i]["gross_package_sales"])]
    IN  IF \E i \in 1..Len(df) : list_price[i] = <<>>
        THEN <<>>
        ELSE <<[i \in 1..Len(df) |-> [list_price |-> list_price[i][1]]]>>

\* The cells of the amount column of a payment frame handed to
\* TypeConverter.convert_types.
PaymentRows == [amount : {"$100", "100", "abc", NaN}]

PaymentFrames == SeqsUpTo(PaymentRows, MaxTransformRows)

\* The conversions configured for payment.amount: a simple one is a string
\* (kept here under the key type), a complex one a dictionary with a format.
Conversions == {[type |-> "float"], [type |-> "int"], [format |-> "money"]}

\* pd.to_numeric(errors='coerce') of one cell: a numeral gives its number,
\* anything else, the string "nan" included, gives NaN.
to_numeric(value) ==
    IF float(value) = <<>> \/ value = "nan" THEN "nan" ELSE float(value)[1]

\* Series.astype(str) of one cell.
astype_str(value) == IF value = NaN THEN "nan" ELSE value

\* str.replace(r'[$,]', '', regex=True) of one cell.
without_currency(value) == IF value = "$100" THEN "100" ELSE value

\* TypeConverter._apply_conversion, lines 60-125, on the cells of the field;
\* Int64 keeps a missing value as <NA>, written nan as well.
apply_conversion(df, field, conversion) ==
    [i \in 1..Len(df) |->
        [df[i] EXCEPT ![field] =
            IF "type" \in DOMAIN conversion
            THEN IF conversion["type"] \in {"float", "int"} THEN to_numeric(@) ELSE @
            ELSE IF conversion["format"] = "money"
                 THEN to_numeric(without_currency(astype_str(@)))
                 ELSE @]]

\* TypeConverter.convert_types, lines 23-58, with the one conversion
\* payment.amount configured.
convert_types(df, conversion) ==
    IF "amount" \notin Columns(df) THEN df ELSE apply_conversion(df, "amount", conversion)

\* The float read_csv yields for a cell "inf".
Inf == "inf"

\* The run of process_data loads a client file and a detailed_line_item
\* file, and neither a client_sale nor a package file.  The mapping of
\* client sends the column mobile_phone to the field mobile_phone;
\* detailed_line_item has no mapping; client_package is derived.
ClientRows == [mobile_phone : {"5551234567", Inf}]

ClientFrames == SeqsUpTo(ClientRows, MaxTransformRows)

DetailedLineItemFrames ==
    SeqsUpTo({[client_name |-> "c"]}, MaxTransformRows)
        \cup SeqsUpTo({[line_item_type |-> "package"]}, MaxTransformRows)

\* parse_phone_number, utils/utils.py lines 75-105: str(int(value)) of a
\* float raises OverflowError on inf; ten digits get the prefix +1.
parse_phone_number(phone_value) ==
    IF IsNa(phone_value) THEN <<None>>
    ELSE IF phone_value = Inf THEN <<>>
    ELSE <<"+1" \o phone_value>>

\* transform_entity, lines 115-144, of a regular entity: no mapping gives
\* an empty frame; map_fields, lines 611-653, sends a field whose name ends
\* in _phone through parse_phone_number.  Nothing here catches.
transform_entity(entity_type, df) ==
    IF entity_type # "client" THEN << <<>> >>
    ELSE LET mobile_phone ==
                 [i \in 1..Len(df) |-> parse_phone_number(df[i]["mobile_phone"])]
         IN  IF \E i \in 1..Len(df) : mobile_phone[i] = <<>>
             THEN <<>>
             ELSE <<[i \in 1..Len(df) |-> [mobile_phone |-> mobile_phone[i][1]]]>>

\* _transform_client_package, lines 174-304, up to its first return: with
\* no client_sale frame and a non-empty detailed_line_item frame, line 194
\* indexes the column client_name (KeyError when the file has none); with
\* no package frame the result is an empty frame.
transform_client_package(dataframes) ==
    LET detailed_line_items_df == dataframes["detailed_line_item"]
    IN  IF detailed_line_items_df # <<>>
           /\ "client_name" \notin Columns(detailed_line_items_df)
        THEN <<>>
        ELSE << <<>> >>

\* The frames of a seeded adapter: any service and package frames beside an
\* appointment frame of at most one row, or any appointment frame alone.
SeededDataframes ==
    [service : ServiceFrames, package : PackageFrames,
     appointment : {<<>>, <<[cancellation_reason |-> "late"]>>}]
        \cup [service : {<<>>}, package : {<<>>}, appointment : AppointmentFrames]

\* A seeded adapter, an ingestion adapter, a type converter or a process
\* script that has loaded its files.  Lines 53-54 of transform_to_canonical start every
\* entity container as an empty list.
InitTransform ==
    /\ t_raised = {}
    /\ \/ /\ t_driver = "seeded"
          /\ tpc = "service"
          /\ t_dataframes \in SeededDataframes
          /\ t_canonical = [service |-> <<>>, package |-> <<>>, appointment |-> <<>>]
       \/ /\ t_driver = "ingestion"
          /\ tpc = "process_appointment"
          /\ t_dataframes \in [appointment : AppointmentFrames]
          /\ t_canonical = EmptyDict
       \/ /\ t_driver = "converter"
          /\ tpc = "convert_types"
          /\ t_dataframes \in [payment : PaymentFrames]
          /\ t_canonical = EmptyDict
       \/ /\ t_driver = "script"
          /\ tpc = "regular"
          /\ t_dataframes \in [client : ClientFrames,
                               detailed_line_item : DetailedLineItemFrames]
          /\ t_canonical = EmptyDict

\* One turn of the loop of transform_to_canonical, lines 57-75: a frame
\* that is absent or empty gives an empty list, and so does a transform
\* that raised.
TransformToCanonical(entity_type, outcome, next) ==
    /\ t_driver = "seeded"
    /\ tpc = entity_type
    /\ IF t_dataframes[entity_type] = <<>>
       THEN /\ t_canonical' = [t_canonical EXCEPT ![entity_type] = <<>>]
            /\ UNCHANGED t_raised
       ELSE IF outcome = <<>>
       THEN /\ t_canonical' = [t_canonical EXCEPT ![entity_type] = <<>>]
            /\ t_raised' = t_raised \cup {entity_type}
       ELSE /\ t_canonical' = [t_canonical EXCEPT ![entity_type] = outcome[1]]
            /\ UNCHANGED t_raised
    /\ tpc' = next
    /\ UNCHANGED <<t_driver, t_dataframes, besidesTransform>>

TransformService ==
    TransformToCanonical("service", transform_service(t_dataframes["service"]), "package")

TransformPackage ==
    TransformToCanonical("package", transform_package(t_dataframes["package"]),
                         "appointment")

TransformAppointment ==
    TransformToCanonical("appointment",
                         transform_appointment(t_dataframes["appointment"]), "returned")

\* standardize_schema, lines 67-75 of the ingestion adapter.
ProcessAppointment ==
    /\ t_driver = "ingestion"
    /\ tpc = "process_appointment"
    /\ t_canonical' = Put(t_canonical, "appointment",
                          process_appointment(t_dataframes["appointment"]))
    /\ tpc' = "returned"
    /\ UNCHANGED <<t_driver, t_dataframes, t_raised, besidesTransform>>

\* A call of TypeConverter.convert_types on the payment frame.
ConvertTypes ==
    /\ t_driver = "converter"
    /\ tpc = "convert_types"
    /\ \E conversion \in Conversions :
          t_canonical' = Put(t_canonical, "payment",
                             convert_types(t_dataframes["payment"], conversion))
    /\ tpc' = "returned"
    /\ UNCHANGED <<t_driver, t_dataframes, t_raised, besidesTransform>>

\* process_data, lines 212-227: the loop over the loaded frames.  An
\* exception of transform_entity reaches the except of lines 300-303, which
\* returns False.  validate_entity returns a frame without rules as it is.
ScriptTransformRegular ==
    /\ t_driver = "script"
    /\ tpc = "regular"
    /\ LET outcome == transform_entity("client", t_dataframes["client"])
           other == transform_entity("detailed_line_item",
                                     t_dataframes["detailed_line_item"])
       IN  IF outcome = <<>>
           THEN /\ t_raised' = t_raised \cup {"client"}
                /\ tpc' = "aborted"
                /\ UNCHANGED t_canonical
           ELSE /\ t_canonical' = [client |-> outcome[1], detailed_line_item |-> other[1]]
                /\ tpc' = "derived"
                /\ UNCHANGED t_raised
    /\ UNCHANGED <<t_driver, t_dataframes, besidesTransform>>

\* process_data, lines 229-240: the loop over the derived entities, then
\* on to step 3.
ScriptTransformDerived ==
    /\ t_driver = "script"
    /\ tpc = "derived"
    /\ LET outcome == transform_client_package(t_dataframes)
       IN  IF outcome = <<>>
           THEN /\ t_raised' = t_raised \cup {"client_package"}
                /\ tpc' = "aborted"
                /\ UNCHANGED t_canonical
           ELSE /\ t_canonical' = Put(t_canonical, "client_package", outcome[1])
                /\ tpc' = "resolve"
                /\ UNCHANGED t_raised
    /\ UNCHANGED <<t_driver, t_dataframes, besidesTransform>>

NextTransform ==
    \/ TransformService
    \/ TransformPackage
    \/ TransformAppointment
    \/ ProcessAppointment
    \/ ConvertTypes
    \/ ScriptTransformRegular
    \/ ScriptTransformDerived

\* Only the transforms run.
InitSpecTransform == InitTransform /\ IdleDrivers /\ IdleGeneric /\ IdleValidator /\ IdleIngestion /\ IdleCleaner /\ IdleEnricher

SpecTransform == InitSpecTransform /\ [][NextTransform]_vars

\* The appointments an adapter has produced, beside the rows they came
\* from.
AppointmentsOut ==
    IF t_driver \in {"seeded", "ingestion"} /\ tpc = "returned"
    THEN t_canonical["appointment"] ELSE <<>>

\* A cancellation reason is present in the row.
HasCancellationReason(row) ==
    /\ "cancellation_reason" \in DOMAIN row
    /\ row["cancellation_reason"] \notin {NaN, None, ""}

\* The appointment-state of the row is NO_SHOW in some letter case.
IsNoShow(row) ==
    /\ "appointment_state" \in DOMAIN row
    /\ row["appointment_state"] \in {"NO_SHOW", "no_show", "No_Show"}

\* C18: the status of every appointment an adapter produces is cancelled
\* when the row has a cancellation reason, whatever its other
\* status-bearing fields say; otherwise no-show when its appointment-state
\* is NO_SHOW in any letter case; otherwise completed.
C18_StatusByReasonThenState ==
    \A i \in DOMAIN AppointmentsOut :
        LET row == t_dataframes["appointment"][i]
        IN  AppointmentsOut[i].status =
                IF HasCancellationReason(row) THEN "cancelled"
                ELSE IF IsNoShow(row) THEN "no-show"
                ELSE "completed"

\* The packages whose own transform does not fail, in the order of the rows.
PackagesThatTransform ==
    LET good == SelectSeq(t_dataframes["package"],
                          LAMBDA row : float(row["gross_package_sales"]) # <<>>)
    IN  [i \in 1..Len(good) |-> [list_price |-> float(good[i]["gross_package_sales"])[1]]]

\* C19: in the entity transforms of the seeded adapter a row whose
\* transform fails is the only row left out: the packages returned are
\* those of all rows whose price parses, and every appointment row yields
\* an appointment.
C19_FailedRowOnlySkipped ==
    t_driver = "seeded" =>
        /\ tpc \in {"appointment", "returned"} =>
               t_canonical["package"] = PackagesThatTransform
        /\ tpc = "returned" =>
               Len(t_canonical["appointment"]) = Len(t_dataframes["appointment"])

\* C20: an entity type whose transform raised has an empty collection and
\* the run is not aborted: the driver goes on to the remaining types and to
\* its later stages.
C20_FailedTypeIsEmptyNotFatal ==
    /\ tpc # "aborted"
    /\ \A entity_type \in t_raised :
           /\ entity_type \in DOMAIN t_canonical
           /\ t_canonical[entity_type] = <<>>

\* The same for the seeded adapter alone.
C20_SeededFailedTypeIsEmpty == t_driver = "seeded" => C20_FailedTypeIsEmptyNotFatal

(***************************************************************************)
(* The Ingestion Orchestrator: DataIngestionOrchestrator.run of            *)
(* data_ingestion/orchestrator.py.  The main configuration is the          *)
(* dictionary load_config read; the CRM configuration is the content of    *)
(* the file crm.config_file names, given by the keys it has at its top     *)
(* level and inside its boulevard section.  A frame of standardized data   *)
(* is given by its entity name.                                            *)
(***************************************************************************)
MaxOutputs == 2     \* entity types adapter.process() can return

\* The entity types in the order the adapter fills standardized_data.
OutputOrder == <<"clinic", "patient", "appointment", "payment">>

MainConfigs ==
    {EmptyDict}
        \cup {[crm |-> [type |-> t, config_file |-> f]] :
                  t \in {None, "", "boulevard", "zenoti"}, f \in {None, "", "crm.yaml"}}

\* A file that cannot be read or parsed is <<>>.
CrmFiles ==
    {<<>>}
        \cup {<<[keys |-> top, boulevard |-> inner]>> :
                  top \in SUBSET {"boulevard", "file_mappings"},
                  inner \in SUBSET {"file_mappings"}}

\* run_except with a seeded fault: the exception leaves run.
run_reraises == "raised"

\* `except Exception as e: ... return False`, lines 135-137.
run_except == "False"

\* Falsy in `if not crm_type` and `if crm_config_file`: None or "".
Falsy(value) == value = None \/ value = ""

\* self.config.get('crm', {}).get(key), lines 64 and 69.
crm_setting(key) ==
    IF "crm" \in DOMAIN i_config THEN i_config["crm"][key] ELSE None

\* crm_config after lines 72-82: the boulevard section of the file when the
\* CRM type is boulevard and the file has one, else the file's top level.
crm_config_keys ==
    IF lower(crm_setting("type")) = "boulevard" /\ "boulevard" \in i_crm_file[1].keys
    THEN i_crm_file[1].boulevard
    ELSE i_crm_file[1].keys

\* run has been called on an orchestrator whose configuration is not loaded.
InitIngestion ==
    /\ ipc = "load_config"
    /\ i_config \in MainConfigs
    /\ i_crm_file \in {f \in CrmFiles :
                          f = <<>> \/ "boulevard" \in f[1].keys \/ f[1].boulevard = {}}
    /\ i_standardized_data = <<>>
    /\ i_files = {}
    /\ i_result = None

\* run returns before it has the adapter.
RunEnds(result) ==
    /\ i_result' = result
    /\ ipc' = "ended in " \o ipc
    /\ UNCHANGED <<i_config, i_crm_file, i_standardized_data, i_files, besidesIngestion>>

\* Lines 55-61: load_config re-raises what open and yaml.safe_load raise,
\* and os.makedirs can raise; both reach the except of run.
RunLoadConfig ==
    /\ ipc = "load_config"
    /\ \/ RunEnds(run_except)
       \/ /\ ipc' = "crm_config"
          /\ UNCHANGED <<i_config, i_crm_file, i_standardized_data, i_files, i_result,
                         besidesIngestion>>

\* Lines 63-93: the CRM type, the CRM configuration file and its
\* file_mappings section.
RunCrmConfig ==
    /\ ipc = "crm_config"
    /\ IF Falsy(crm_setting("type")) THEN RunEnds(run_except)
       ELSE IF Falsy(crm_setting("config_file")) THEN RunEnds("False")
       ELSE IF i_crm_file = <<>> THEN RunEnds(run_except)
       ELSE IF "file_mappings" \notin crm_config_keys THEN RunEnds("False")
       ELSE /\ ipc' = "process"
            /\ UNCHANGED <<i_config, i_crm_file, i_standardized_data, i_files, i_result,
                           besidesIngestion>>

\* The dictionaries adapter.process() can return.
StandardizedData ==
    {SelectSeq(SubSeq(OutputOrder, 1, MaxOutputs), LAMBDA entity_name : entity_name \in names) :
        names \in SUBSET {OutputOrder[i] : i \in 1..MaxOutputs}}

\* Lines 95-108: AdapterFactory.create_adapter raises ValueError for a type
\* other than boulevard, and adapter.process() can raise.
RunProcess ==
    /\ ipc = "process"
    /\ IF lower(crm_setting("type")) # "boulevard" THEN RunEnds(run_except)
       ELSE \/ RunEnds(run_except)
            \/ /\ i_standardized_data' \in StandardizedData
               /\ ipc' = "write"
               /\ UNCHANGED <<i_config, i_crm_file, i_files, i_result, besidesIngestion>>

\* Lines 110-133: no data returns False; else every frame is written inside
\* its own try, a failed write is logged, and run returns True.
RunWrite ==
    /\ ipc = "write"
    /\ IF i_standardized_data = <<>>
       THEN /\ i_result' = "False"
            /\ UNCHANGED i_files
       ELSE /\ i_files' \in SUBSET {i_standardized_data[k] : k \in DOMAIN i_standardized_data}
            /\ i_result' = "True"
    /\ ipc' = "ended in write"
    /\ UNCHANGED <<i_config, i_crm_file, i_standardized_data, besidesIngestion>>

NextIngestion ==
    \/ RunLoadConfig
    \/ RunCrmConfig
    \/ RunProcess
    \/ RunWrite

\* Only the Ingestion Orchestrator runs.
InitSpecIngestion == InitIngestion /\ IdleDrivers /\ IdleGeneric /\ IdleValidator /\ IdleTransform /\ IdleCleaner /\ IdleEnricher

SpecIngestion == InitSpecIngestion /\ [][NextIngestion]_vars

\* run has ended.
RunDone == ipc \in {"ended in load_config", "ended in crm_config", "ended in process",
                    "ended in write"}

\* The CRM configuration run loaded has no file_mappings section.
NoFileMappings ==
    /\ ~Falsy(crm_setting("type"))
    /\ ~Falsy(crm_setting("config_file"))
    /\ i_crm_file # <<>>
    /\ "file_mappings" \notin crm_config_keys

\* C21: run never raises past its own boundary, and it returns False
\* whenever the CRM type is unspecified, the CRM config file is unspecified
\* or the loaded CRM configuration has no file_mappings section.
C21_FailsFastWithoutRaising ==
    /\ i_result # "raised"
    /\ RunDone =>
           ((\/ Falsy(crm_setting("type"))
             \/ Falsy(crm_setting("config_file"))
             \/ NoFileMappings) => i_result = "False")

\* C21 witness: run has returned False on a boulevard configuration whose
\* file was read and has no file_mappings section.
C21_Witness ==
    /\ ipc = "ended in crm_config"
    /\ i_result = "False"
    /\ NoFileMappings

\* C29: run returns True only if the output file of every entity type the
\* adapter produced was written.
C29_TrueOnlyIfAllWritten ==
    (RunDone /\ i_result = "True") =>
        \A k \in DOMAIN i_standardized_data : i_standardized_data[k] \in i_files

\* The source value is missing or cannot be read as a number.
NoNumber(value) == value \in {None, NaN, "abc"}

\* Every row of the frame has a record whose field is a number, and zero
\* where the row's value is missing or unparsable.
NumbersOrZero(entity_type, source_field, field) ==
    /\ Len(t_canonical[entity_type]) = Len(t_dataframes[entity_type])
    /\ \A i \in DOMAIN t_dataframes[entity_type] :
           /\ i \in DOMAIN t_canonical[entity_type]
           /\ t_canonical[entity_type][i][field] # "nan"
           /\ NoNumber(t_dataframes[entity_type][i][source_field])
                  => t_canonical[entity_type][i][field] = "0.0"

\* C23: every monetary field of an emitted record is a number, and zero
\* whenever the source value was missing or unparsable; an unparsable value
\* never removes the record.  The fields are base_price of a service and
\* list_price of a package of the seeded adapter, and a field converted by
\* the type converter.
C23_MoneyDefaultsToZero ==
    /\ (t_driver = "seeded" /\ tpc \in {"package", "appointment", "returned"})
           => NumbersOrZero("service", "base_price", "base_price")
    /\ (t_driver = "seeded" /\ tpc \in {"appointment", "returned"})
           => NumbersOrZero("package", "gross_package_sales", "list_price")
    /\ (t_driver = "converter" /\ tpc = "returned")
           => NumbersOrZero("payment", "amount", "amount")

\* The part of C23 that the service transform keeps: a base price that is
\* None or unparsable becomes zero and no service row is lost.
C23_ServiceNoneOrUnparsableIsZero ==
    (t_driver = "seeded" /\ tpc \in {"package", "appointment", "returned"}) =>
        /\ Len(t_canonical["service"]) = Len(t_dataframes["service"])
        /\ \A i \in DOMAIN t_dataframes["service"] :
               t_dataframes["service"][i]["base_price"] \in {None, "abc"}
                   => t_canonical["service"][i]["base_price"] = "0.0"

(***************************************************************************)
(* The rule-based cleaner: DataCleaner.clean_dataset of                    *)
(* pipeline/cleaner.py with rules of type fill_missing.                    *)
(***************************************************************************)
MaxClean == 3     \* records in the data argument

\* The records of the data: an id and a name, each of which can be None,
\* and a name that can be empty.
CleanPool == [id : {"1", None}, name : {"n", "", None}]

CleaningRule(field, rule_type, parameters) ==
    [field |-> field, rule_type |-> rule_type, parameters |-> parameters]

\* The rule lists: none, fill_missing on name with and without a default,
\* fill_missing on a field the data does not have, and an unknown rule type.
CleanRuleLists ==
    { <<>>,
      <<CleaningRule("name", "fill_missing", [default_value |-> "unknown"])>>,
      <<CleaningRule("name", "fill_missing", EmptyDict)>>,
      <<CleaningRule("phone", "fill_missing", [default_value |-> "unknown"])>>,
      <<CleaningRule("name", "no_such_rule", EmptyDict)>> }

\* _fill_missing, lines 178-182.
fill_missing(value, params) ==
    IF isna(value) \/ value = ""
    THEN IF "default_value" \in DOMAIN params THEN params["default_value"] ELSE ""
    ELSE value

\* The lambda of lines 96-98: the cleaner is called on the values that are
\* not null, and a null value is kept.
apply_cleaner(x, params) ==
    IF ~isna(x) THEN fill_missing(x, params) ELSE x

\* df.dropna(how='all'), line 103: the rows with some value that is not null.
dropna_all(df) ==
    SelectSeq(df, LAMBDA row : \E column \in DOMAIN row : ~isna(row[column]))

\* clean_dataset, lines 61-106.
clean_dataset(data, rules) ==
    LET after[k \in 0..Len(rules)] ==
            IF k = 0 THEN data
            ELSE LET df == after[k - 1]
                     rule == rules[k]
                 IN  IF rule.field \notin Columns(df) THEN df
                     ELSE IF rule.rule_type # "fill_missing" THEN df
                     ELSE [i \in 1..Len(df) |->
                              [df[i] EXCEPT ![rule.field] =
                                   apply_cleaner(@, rule.parameters)]]
    IN  dropna_all(after[Len(rules)])

\* A cleaner and the arguments of one call of clean_dataset.
InitCleaner ==
    /\ cpc = "clean_dataset"
    /\ c_data \in SeqsUpTo(CleanPool, MaxClean)
    /\ c_rules \in CleanRuleLists
    /\ c_cleaned = <<>>

CleanDataset ==
    /\ cpc = "clean_dataset"
    /\ c_cleaned' = clean_dataset(c_data, c_rules)
    /\ cpc' = "done"
    /\ UNCHANGED <<c_data, c_rules, besidesCleaner>>

NextCleaner == CleanDataset

\* Only the cleaner runs.
InitSpecCleaner == InitCleaner /\ IdleDrivers /\ IdleGeneric /\ IdleValidator /\ IdleTransform /\ IdleIngestion /\ IdleEnricher

SpecCleaner == InitSpecCleaner /\ [][NextCleaner]_vars

\* The call applied one fill_missing rule to the field name.
FilledName ==
    /\ cpc = "done"
    /\ Len(c_rules) = 1
    /\ c_rules[1].field = "name"
    /\ c_rules[1].rule_type = "fill_missing"

\* C24: fill_missing on a field puts the configured default in every record
\* whose value for the field is absent or an empty string and leaves every
\* other value as it was.
C24_FillMissingFillsAbsentAndEmpty ==
    FilledName =>
        /\ Len(c_cleaned) = Len(c_data)
        /\ \A i \in DOMAIN c_data :
               /\ i \in DOMAIN c_cleaned
               /\ c_cleaned[i]["id"] = c_data[i]["id"]
               /\ c_cleaned[i]["name"] =
                      IF isna(c_data[i]["name"]) \/ c_data[i]["name"] = ""
                      THEN fill_missing("", c_rules[1].parameters)
                      ELSE c_data[i]["name"]

\* The part of C24 the cleaner keeps: when no record is without any value,
\* an empty name gets the default, and every value that is neither null nor
\* empty, and every id, stays as it was.
C24_EmptyStringFilled ==
    (FilledName /\ \A i \in DOMAIN c_data : c_data[i]["id"] # None) =>
        /\ Len(c_cleaned) = Len(c_data)
        /\ \A i \in DOMAIN c_data :
               /\ c_cleaned[i]["id"] = c_data[i]["id"]
               /\ c_data[i]["name"] = ""
                      => c_cleaned[i]["name"] = fill_missing("", c_rules[1].parameters)
               /\ c_data[i]["name"] \notin {"", None}
                      => c_cleaned[i]["name"] = c_data[i]["name"]

(***************************************************************************)
(* The semantic enricher: SemanticEnricher.enrich_entities of              *)
(* pipeline/enricher.py with the rules the client segmentation reads and   *)
(* the service conversion rule.                                            *)
(*                                                                         *)
(* A number an enricher stores is <<n>> and the None it stores is <<>>.    *)
(* Money is in whole currency units, a rate and a risk in hundredths, and  *)
(* a visit frequency in tenths of a day.  A date is an ISO string without  *)
(* an offset, and datetime.now() is the date Now.                          *)
(***************************************************************************)
MaxAppointments == 2     \* records under 'appointment'
MaxPackages     == 2     \* records under 'package'
MaxComponents   == 2     \* records under 'packageComponent'

Now == "2024-06-29"

\* The days from 2024-01-01 to a date.
DayNumber(date) ==
    CASE date = "2024-01-01" -> 0
      [] date = "2024-06-19" -> 170
      [] date = "2024-06-29" -> 180

\* datetime.fromisoformat(s.replace('Z', '+00:00')): <<>> is its ValueError.
fromisoformat(s) == IF s \in {"2024-01-01", "2024-06-19"} THEN <<s>> ELSE <<>>

\* round(p / q, digits) as a whole number of 10^-digits, scale = 10^digits.
\* No quotient of the model lies halfway between two of them.
round(p, q, scale) == (2 * scale * p + q) \div (2 * q)

\* entity.get(field): the value, or None.
GetNumber(entity, field) == IF field \in DOMAIN entity THEN entity[field] ELSE <<>>

\* related_entities[key] when the key is there, else no records.
Related(related_entities, key) ==
    IF key \in DOMAIN related_entities THEN related_entities[key] ELSE <<>>

\* The parsed dates of the patient's completed appointments, in list order;
\* a date that does not parse is passed over (lines 367-378, 407-416).
completed_dates(patient_id, related_entities) ==
    LET mine == SelectSeq(Related(related_entities, "appointment"),
                          LAMBDA a : /\ a.patient_id = patient_id
                                     /\ a.status = "completed"
                                     /\ fromisoformat(a.scheduled_at) # <<>>)
    IN  [i \in DOMAIN mine |-> DayNumber(mine[i].scheduled_at)]

SeqMax(s) == CHOOSE x \in {s[i] : i \in DOMAIN s} : \A i \in DOMAIN s : s[i] <= x
SeqMin(s) == CHOOSE x \in {s[i] : i \in DOMAIN s} : \A i \in DOMAIN s : x <= s[i]

\* _enrich_lifetime_value, lines 316-346.
enrich_lifetime_value(entity, related_entities) ==
    IF "patient_id" \notin DOMAIN entity THEN entity
    ELSE LET payments == SelectSeq(Related(related_entities, "payment"),
                             LAMBDA p : /\ p.patient_id = entity.patient_id
                                        /\ p.status = "completed")
             packages == SelectSeq(Related(related_entities, "patientPackage"),
                             LAMBDA p : p.patient_id = entity.patient_id)
             lifetime_value ==
                 SeqSum([i \in DOMAIN payments |-> payments[i].amount])
                     + SeqSum([i \in DOMAIN packages |-> packages[i].price_paid])
         IN  Put(entity, "lifetime_value", <<lifetime_value>>)

\* _enrich_days_since_last_visit, lines 348-386.
enrich_days_since_last_visit(entity, related_entities) ==
    IF "patient_id" \notin DOMAIN entity THEN entity
    ELSE LET dates == completed_dates(entity.patient_id, related_entities)
         IN  IF dates # <<>>
             THEN Put(entity, "days_since_last_visit", <<DayNumber(Now) - SeqMax(dates)>>)
             ELSE Put(entity, "days_since_last_visit", <<>>)

\* _enrich_treatment_frequency, lines 388-432: the mean of the intervals
\* between the sorted dates is the span over the number of intervals.
enrich_treatment_frequency(entity, related_entities) ==
    IF "patient_id" \notin DOMAIN entity THEN entity
    ELSE LET dates == completed_dates(entity.patient_id, related_entities)
         IN  IF Len(dates) >= 2
             THEN Put(entity, "visit_frequency_days",
                      <<round(SeqMax(dates) - SeqMin(dates), Len(dates) - 1, 10)>>)
             ELSE Put(entity, "visit_frequency_days", <<>>)

\* _enrich_voucher_history, lines 622-652: nothing is stored for a patient
\* without redemptions.
enrich_voucher_history(entity, related_entities) ==
    IF "patient_id" \notin DOMAIN entity THEN entity
    ELSE LET patient_vouchers ==
                 SelectSeq(Related(related_entities, "voucherRedemption"),
                           LAMBDA v : v.patient_id = entity.patient_id)
             total == SeqSum([i \in DOMAIN patient_vouchers |->
                                 patient_vouchers[i].redeemed_value])
             dates == [i \in DOMAIN patient_vouchers |->
                          DayNumber(patient_vouchers[i].redemption_date)]
             most_recent == CHOOSE v \in {patient_vouchers[i] : i \in DOMAIN patient_vouchers} :
                                DayNumber(v.redemption_date) = SeqMax(dates)
         IN  IF patient_vouchers = <<>> THEN entity
             ELSE Put(Put(Put(entity, "voucher_redemption_count", <<Len(patient_vouchers)>>),
                          "total_voucher_value", <<total>>),
                      "last_voucher_redemption_date", most_recent.redemption_date)

\* _enrich_client_segment, lines 518-562.
enrich_client_segment(entity) ==
    IF "patient_id" \notin DOMAIN entity THEN entity
    ELSE LET days_since_last_visit == GetNumber(entity, "days_since_last_visit")
             lifetime_value == GetNumber(entity, "lifetime_value")
             voucher_count  == IF "voucher_redemption_count" \in DOMAIN entity
                               THEN entity.voucher_redemption_count[1] ELSE 0
             high_value == lifetime_value # <<>> /\ lifetime_value[1] >= 1000
             segment ==
                 IF days_since_last_visit = <<>> THEN "Unknown"
                 ELSE IF days_since_last_visit[1] <= 60
                      THEN IF high_value
                           THEN IF voucher_count > 2 THEN "Discount-Driven High Value"
                                ELSE "Loyal High Value"
                           ELSE IF voucher_count > 2 THEN "Discount-Driven Regular"
                                ELSE "Active Regular"
                 ELSE IF days_since_last_visit[1] <= 120
                      THEN IF high_value THEN "At Risk High Value" ELSE "At Risk Regular"
                 ELSE IF high_value THEN "Churned High Value" ELSE "Churned Regular"
         IN  Put(entity, "client_segment", segment)

\* base_risk of _enrich_churn_risk, lines 592-601.
base_risk(days_since_last_visit) ==
    IF days_since_last_visit <= 30 THEN 10
    ELSE IF days_since_last_visit <= 60 THEN 30
    ELSE IF days_since_last_visit <= 90 THEN 50
    ELSE IF days_since_last_visit <= 120 THEN 70
    ELSE 90

\* frequency_factor of _enrich_churn_risk, lines 605-612, in tenths.
frequency_factor(visit_frequency) ==
    IF visit_frequency <= 140 THEN 7
    ELSE IF visit_frequency <= 300 THEN 9
    ELSE IF visit_frequency <= 600 THEN 11
    ELSE 13

\* _enrich_churn_risk, lines 564-619.
enrich_churn_risk(entity) ==
    IF "patient_id" \notin DOMAIN entity THEN entity
    ELSE LET days_since_last_visit == GetNumber(entity, "days_since_last_visit")
             visit_frequency == GetNumber(entity, "visit_frequency_days")
             final_risk ==
                 IF visit_frequency # <<>>
                 THEN round(base_risk(days_since_last_visit[1])
                                * frequency_factor(visit_frequency[1]), 10, 1)
                 ELSE base_risk(days_since_last_visit[1])
         IN  IF days_since_last_visit = <<>> THEN Put(entity, "churn_risk", <<>>)
             ELSE Put(entity, "churn_risk", <<Min(final_risk, 99)>>)

\* _enrich_service_conversion, lines 720-774.
enrich_service_conversion(entity, related_entities) ==
    IF "service_id" \notin DOMAIN entity THEN entity
    ELSE LET both == {"packageComponent", "package"} \subseteq DOMAIN related_entities
             total_packages == IF both THEN Len(related_entities["package"]) ELSE 0
             packages_with_service ==
                 IF both
                 THEN Len(SelectSeq(related_entities["packageComponent"],
                                    LAMBDA c : c.service_id = entity.service_id))
                 ELSE 0
             lines == SelectSeq(Related(related_entities, "appointmentLine"),
                                LAMBDA l : l.service_id = entity.service_id)
             package_appointments == Len(SelectSeq(lines, LAMBDA l : l.package_id # None))
             package_inclusion_rate ==
                 IF total_packages > 0
                 THEN round(packages_with_service, total_packages, 100) ELSE 0
             package_usage_rate ==
                 IF Len(lines) > 0 THEN round(package_appointments, Len(lines), 100) ELSE 0
         IN  Put(Put(entity, "package_inclusion_rate", <<package_inclusion_rate>>),
                 "package_usage_rate", <<package_usage_rate>>)

\* The rule types of _build_enrichers (lines 190-206) that the model runs.
Enrichers ==
    {"lifetime_value", "days_since_last_visit", "treatment_frequency", "client_segment",
     "churn_risk", "voucher_history", "service_conversion"}

\* The body of the rule loop, lines 232-247: a rule outside a non-empty
\* self.metrics is skipped, and so is a rule type without an enricher.
apply_rule(entity, related_entities, rule_type, metrics) ==
    IF rule_type \notin metrics /\ metrics # {} THEN entity
    ELSE IF rule_type \notin Enrichers THEN entity
    ELSE CASE rule_type = "lifetime_value" ->
                  enrich_lifetime_value(entity, related_entities)
           [] rule_type = "days_since_last_visit" ->
                  enrich_days_since_last_visit(entity, related_entities)
           [] rule_type = "treatment_frequency" ->
                  enrich_treatment_frequency(entity, related_entities)
           [] rule_type = "voucher_history" ->
                  enrich_voucher_history(entity, related_entities)
           [] rule_type = "client_segment" -> enrich_client_segment(entity)
           [] rule_type = "churn_risk" -> enrich_churn_risk(entity)
           [] rule_type = "service_conversion" ->
                  enrich_service_conversion(entity, related_entities)

\* The rule loop over one entity, lines 229-247.
RECURSIVE apply_rules(_, _, _, _)
apply_rules(entity, related_entities, rules, metrics) ==
    IF rules = <<>> THEN entity
    ELSE apply_rules(apply_rule(entity, related_entities, Head(rules), metrics),
                     related_entities, Tail(rules), metrics)

\* ---- the inputs of the model ----
Patient == [patient_id |-> "p1"]

AppointmentPool ==
    [patient_id : {"p1"}, status : {"completed"},
     scheduled_at : {"2024-01-01", "2024-06-19", "soon"}]
        \cup {[patient_id |-> "p1", status |-> "cancelled", scheduled_at |-> "2024-06-19"]}

\* What the patient has paid: nothing, or a payment and a package.
Purchases ==
    {[payment |-> <<>>, patientPackage |-> <<>>],
     [payment |-> <<[patient_id |-> "p1", status |-> "completed", amount |-> 1500]>>,
      patientPackage |-> <<[patient_id |-> "p1", price_paid |-> 500]>>]}

VoucherRedemption ==
    [patient_id |-> "p1", redeemed_value |-> 20, redemption_date |-> "2024-06-19"]

VoucherRedemptions == {<<>>, <<VoucherRedemption, VoucherRedemption, VoucherRedemption>>}

PatientRelated ==
    {[appointment |-> a, payment |-> p.payment, patientPackage |-> p.patientPackage,
      voucherRedemption |-> v] :
        a \in SeqsUpTo(AppointmentPool, MaxAppointments), p \in Purchases,
        v \in VoucherRedemptions}

Services == {[service_id |-> "s1"], [service_id |-> "s2"]}

Packages == SeqsUpTo({[package_id |-> "k1"], [package_id |-> "k2"]}, MaxPackages)

PackageComponents ==
    SeqsUpTo([package_id : {"k1", "k2"}, service_id : {"s1", "s2"}], MaxComponents)

AppointmentLines ==
    {<<>>, <<[service_id |-> "s1", package_id |-> "k1"],
             [service_id |-> "s1", package_id |-> None]>>}

\* What a service is enriched from; the packages may be left out.
ServiceRelated ==
    {[package |-> k, packageComponent |-> c, appointmentLine |-> l] :
        k \in Packages, c \in PackageComponents, l \in AppointmentLines}
        \cup {[packageComponent |-> c] : c \in PackageComponents}

\* The rule types that client_segment and churn_risk are computed with.
SegmentRules ==
    <<"days_since_last_visit", "lifetime_value", "treatment_frequency", "voucher_history",
      "client_segment", "churn_risk">>

\* Every ordering of a rule list.
Orderings(rules) ==
    {[i \in DOMAIN rules |-> rules[p[i]]] :
        p \in {q \in [DOMAIN rules -> DOMAIN rules] :
                  \A i, j \in DOMAIN rules : q[i] = q[j] => i = j}}

ServiceRules == {<<"service_conversion">>, <<"no_such_rule", "service_conversion">>}

\* self.metrics: the default of no metrics, or the metrics a config names.
Metrics == {{}, {"client_segment", "churn_risk", "service_conversion"}}

\* The calls of enrich_entities the model makes: a patient with every
\* ordering of the segment rules, or services with the conversion rule.
EnrichCalls ==
    [metrics : {{}}, entities : {<<Patient>>}, related_entities : PatientRelated,
     rules : Orderings(SegmentRules)]
        \cup [metrics : Metrics, entities : {<<Patient>>}, related_entities : PatientRelated,
              rules : {SegmentRules}]
        \cup [metrics : Metrics, entities : SeqsUpTo(Services, 2),
              related_entities : ServiceRelated, rules : ServiceRules]

\* enrich_entities has been called; enriched_entities = [] (line 225).
InitEnricher ==
    \E call \in EnrichCalls :
        /\ e_metrics = call.metrics
        /\ e_entities = call.entities
        /\ e_related = call.related_entities
        /\ e_rules = call.rules
        /\ e_i = 1
        /\ e_j = 1
        /\ e_entity = EmptyDict
        /\ e_enriched = <<>>
        /\ epc = "entity"

\* `for entity in entities`, lines 228-229: the next entity is copied.
EnrichCopy ==
    /\ epc = "entity"
    /\ e_i <= Len(e_entities)
    /\ e_entity' = e_entities[e_i]
    /\ e_j' = 1
    /\ epc' = "rules"
    /\ UNCHANGED <<e_metrics, e_entities, e_related, e_rules, e_i, e_enriched, besidesEnricher>>

\* `for rule in rules`, lines 232-247: one rule is applied to the copy.
EnrichApplyRule ==
    /\ epc = "rules"
    /\ e_j <= Len(e_rules)
    /\ e_entity' = apply_rule(e_entity, e_related, e_rules[e_j], e_metrics)
    /\ e_j' = e_j + 1
    /\ UNCHANGED <<epc, e_metrics, e_entities, e_related, e_rules, e_i, e_enriched,
                   besidesEnricher>>

\* enriched_entities.append(enriched_entity), line 249.
EnrichAppend ==
    /\ epc = "rules"
    /\ e_j > Len(e_rules)
    /\ e_enriched' = Append(e_enriched, e_entity)
    /\ e_i' = e_i + 1
    /\ epc' = "entity"
    /\ UNCHANGED <<e_metrics, e_entities, e_related, e_rules, e_j, e_entity, besidesEnricher>>

\* return enriched_entities, line 251.
EnrichReturn ==
    /\ epc = "entity"
    /\ e_i > Len(e_entities)
    /\ epc' = "returned"
    /\ UNCHANGED <<e_metrics, e_entities, e_related, e_rules, e_i, e_j, e_entity, e_enriched,
                   besidesEnricher>>

NextEnricher ==
    \/ EnrichCopy
    \/ EnrichApplyRule
    \/ EnrichAppend
    \/ EnrichReturn

\* Only the enricher runs.
InitSpecEnricher == InitEnricher /\ IdleDrivers /\ IdleGeneric /\ IdleValidator /\ IdleTransform /\ IdleIngestion /\ IdleCleaner

SpecEnricher == InitSpecEnricher /\ [][NextEnricher]_vars

\* enrich_entities has returned the enriched services.
ServicesEnriched ==
    /\ epc = "returned"
    /\ e_metrics = {}
    /\ e_entities # <<>>
    /\ \A i \in DOMAIN e_entities : "service_id" \in DOMAIN e_entities[i]

\* The ids of the packages with a component of the service.
PackagesContaining(service_id) ==
    {c.package_id : c \in {e_related["packageComponent"][i] :
                             i \in DOMAIN e_related["packageComponent"]} \cap
                          {c \in [package_id : {"k1", "k2"}, service_id : {"s1", "s2"}] :
                             c.service_id = service_id}}

\* C25: for every service, package_inclusion_rate is the number of distinct
\* packages that contain the service over the number of packages, 0.0 when
\* there are no packages, and so lies between 0 and 1.
C25_RateIsShareOfPackages ==
    ServicesEnriched =>
        \A i \in DOMAIN e_enriched :
            LET total == Len(Related(e_related, "package"))
                rate  == e_enriched[i]["package_inclusion_rate"][1]
            IN  /\ rate = IF total = 0 THEN 0
                          ELSE round(Cardinality(PackagesContaining(e_entities[i].service_id)),
                                     total, 100)
                /\ rate <= 100

\* No package is listed twice, no component is listed twice, and every
\* component belongs to a listed package.
DistinctComponentsOfListedPackages ==
    /\ "package" \in DOMAIN e_related
    /\ \A i, j \in DOMAIN e_related["package"] :
           e_related["package"][i] = e_related["package"][j] => i = j
    /\ \A i, j \in DOMAIN e_related["packageComponent"] :
           e_related["packageComponent"][i] = e_related["packageComponent"][j] => i = j
    /\ \A i \in DOMAIN e_related["packageComponent"] :
           \E j \in DOMAIN e_related["package"] :
               e_related["package"][j].package_id = e_related["packageComponent"][i].package_id

\* The part of C25 that the code keeps: over such lists the rate is the
\* share of the packages that contain the service.
C25_RateOfDistinctComponents ==
    (ServicesEnriched /\ DistinctComponentsOfListedPackages) =>
        \A i \in DOMAIN e_enriched :
            LET total == Len(e_related["package"])
                rate  == e_enriched[i]["package_inclusion_rate"][1]
            IN  /\ rate = IF total = 0 THEN 0
                          ELSE round(Cardinality(PackagesContaining(e_entities[i].service_id)),
                                     total, 100)
                /\ rate <= 100

\* enrich_entities has returned a client with a completed appointment,
\* enriched under some ordering of the segment rules.
ClientEnriched ==
    /\ epc = "returned"
    /\ e_metrics = {}
    /\ e_entities = <<Patient>>
    /\ Len(e_rules) = Len(SegmentRules)
    /\ {e_rules[i] : i \in DOMAIN e_rules} = {SegmentRules[i] : i \in DOMAIN SegmentRules}
    /\ completed_dates("p1", e_related) # <<>>

\* The client enriched under the rule list in the order SegmentRules.
InSegmentRulesOrder == apply_rules(Patient, e_related, SegmentRules, {})

\* C28: the client_segment and the churn_risk of a client with completed
\* appointments are the same under every ordering of the rule list.
C28_SegmentAndRiskIgnoreRuleOrder ==
    ClientEnriched =>
        /\ e_enriched[1]["client_segment"] = InSegmentRulesOrder["client_segment"]
        /\ e_enriched[1]["churn_risk"] = InSegmentRulesOrder["churn_risk"]

\* rule `first` stands before rule `second` in the rule list.
Before(first, second) ==
    \E i, j \in DOMAIN e_rules : i < j /\ e_rules[i] = first /\ e_rules[j] = second

\* The part of C28 that the code keeps: the orderings that put the rules a
\* value reads before the rule that computes it give the same value.
C28_SameWhenInputsComeFirst ==
    ClientEnriched =>
        /\ (\A rule \in {"days_since_last_visit", "lifetime_value", "voucher_history"} :
                Before(rule, "client_segment"))
               => e_enriched[1]["client_segment"] = InSegmentRulesOrder["client_segment"]
        /\ (\A rule \in {"days_since_last_visit", "treatment_frequency"} :
                Before(rule, "churn_risk"))
               => e_enriched[1]["churn_risk"] = InSegmentRulesOrder["churn_risk"]

====
